---------------------------- MODULE Spec2Model ----------------------------
(***************************************************************************)
(* mcp-secret-wrapper: the secret-resolution pipeline of the CLI           *)
(* (parseCliArgs, getSecrets, extractJsonPath, main, runMcpServer), the    *)
(* vault configuration parser, the vault registry and the GCP / AWS vault  *)
(* plugins.                                                                *)
(*                                                                         *)
(* JavaScript strings are modelled as sequences of one-character strings,  *)
(* so that lastIndexOf, split, startsWith and includes are computed and    *)
(* not assumed.  `undefined` is the one-element sequence Undefined, which  *)
(* no JavaScript string equals.                                            *)
(***************************************************************************)
EXTENDS Integers, Sequences, FiniteSets, TLC

VARIABLES
    pc,            \* position of the running code (main / plugin caller)
    argv,          \* process.argv.slice(2)
    env,           \* process.env entries VAULT_*: sequence of <<name, value>>
    world,         \* what initialize reads outside the process: key files,
                   \* GOOGLE_APPLICATION_CREDENTIALS, gcloud, SDK constructor
    vaultConfig,   \* result of VaultConfigParser.getVaultConfig
    envVars,       \* parseCliArgs()[0]: properties in insertion order
    command,       \* parseCliArgs()[1]
    vault,         \* the plugin instance: name, client, resolvedProjectId, config
    idx,           \* loop index of getSecrets over Object.entries(envVars)
    result,        \* local `result` of getSecrets: properties in insertion order
    secretValues,  \* value getSecrets resolved with (Undefined until it does)
    request,       \* the vault.getSecret call being served, NoRequest if none
    getSecretLog,  \* every vault.getSecret call made by getSecrets, in order
    error,         \* the error thrown last (NoError if none)
    exitCode,      \* argument of process.exit, NotExited before
    spawned,       \* arguments of spawn(), NotSpawned before
    calls,         \* number of getSecret calls made on the plugin directly
    registry,      \* plugins of vaultRegistry: name -> registered plugin
    instances      \* the instances createVault has returned, in order

vars == <<pc, argv, env, world, vaultConfig, envVars, command, vault, idx,
          result, secretValues, request, getSecretLog, error, exitCode,
          spawned, calls, registry, instances>>

-----------------------------------------------------------------------------
(* Bounds of the model *)

\* largest number of KEY=VALUE arguments on the command line
MaxEntries == 2
\* largest number of getSecret calls made on one plugin instance
MaxCalls == 2

-----------------------------------------------------------------------------
(* JavaScript values *)

Undefined == <<"undefined">>
Truthy(s) == s # Undefined /\ s # <<>>

\* String.prototype.indexOf / Array.prototype.indexOf (0-based, -1 if absent)
IndexOf(s, c) ==
    IF \E i \in 1..Len(s) : s[i] = c
    THEN (CHOOSE i \in 1..Len(s) : s[i] = c /\ \A j \in 1..(i-1) : s[j] # c) - 1
    ELSE -1

\* String.prototype.lastIndexOf for a one-character needle
LastIndexOf(s, c) ==
    IF \E i \in 1..Len(s) : s[i] = c
    THEN (CHOOSE i \in 1..Len(s) : s[i] = c /\ \A j \in (i+1)..Len(s) : s[j] # c) - 1
    ELSE -1

\* String.prototype.substring(a, b) and substring(a), 0-based
Substring(s, a, b) == SubSeq(s, a + 1, b)
SubstringFrom(s, a) == SubSeq(s, a + 1, Len(s))

StartsWith(s, p) == Len(p) <= Len(s) /\ SubSeq(s, 1, Len(p)) = p
EndsWith(s, p) == Len(p) <= Len(s) /\ SubSeq(s, Len(s) - Len(p) + 1, Len(s)) = p
Includes(s, sub) ==
    \E i \in 0..(Len(s) - Len(sub)) : SubSeq(s, i + 1, i + Len(sub)) = sub

\* String.prototype.split(c) for a one-character separator
RECURSIVE Split(_, _)
Split(s, c) ==
    LET i == IndexOf(s, c)
    IN IF i = -1 THEN <<s>>
       ELSE <<Substring(s, 0, i)>> \o Split(SubstringFrom(s, i + 1), c)

\* Array.prototype.join(sep)
RECURSIVE Join(_, _)
Join(parts, sep) ==
    IF parts = <<>> THEN <<>>
    ELSE IF Len(parts) = 1 THEN parts[1]
    ELSE parts[1] \o sep \o Join(Tail(parts), sep)

Whitespace == {" ", "\n", "\t", "\r"}

\* String.prototype.trim
RECURSIVE TrimStart(_)
TrimStart(s) ==
    IF s # <<>> /\ s[1] \in Whitespace THEN TrimStart(Tail(s)) ELSE s
RECURSIVE TrimEnd(_)
TrimEnd(s) ==
    IF s # <<>> /\ s[Len(s)] \in Whitespace
    THEN TrimEnd(SubSeq(s, 1, Len(s) - 1)) ELSE s
Trim(s) == TrimEnd(TrimStart(s))

-----------------------------------------------------------------------------
(* Errors: the kind names the `throw new Error(...)` site, the detail the   *)
(* values interpolated into its message.                                    *)

Err(kind, detail) == [kind |-> kind, detail |-> detail]
NoError == Err("none", <<>>)

-----------------------------------------------------------------------------
(* String literals of the GCP plugin *)

Str_projectsSlash == <<"p","r","o","j","e","c","t","s","/">>
Str_projects == <<"p","r","o","j","e","c","t","s">>
Str_secrets == <<"s","e","c","r","e","t","s">>
Str_versions == <<"v","e","r","s","i","o","n","s">>
Str_slashVersionsSlash == <<"/","v","e","r","s","i","o","n","s","/">>
Str_latest == <<"l","a","t","e","s","t">>
Str_unset == <<"(","u","n","s","e","t",")">>
Str_gcp == <<"g","c","p">>
Str_aws == <<"a","w","s">>


-----------------------------------------------------------------------------
(* GCPVaultPlugin *)

\* a GCPVaultConfig without any parameter
NoCredentials == [present |-> FALSE, project_id |-> Undefined]
EmptyGcpConfig ==
    [projectId |-> Undefined, keyFilename |-> Undefined,
     credentials |-> NoCredentials]

\* fs.readFileSync + JSON.parse of a key file: what the file system holds
UnreadableFile == [readable |-> FALSE, project_id |-> Undefined]
ReadKeyFile(w, path) ==
    IF path \in DOMAIN w.files THEN w.files[path] ELSE UnreadableFile

\* execSync("gcloud config get-value project").trim(), Undefined if it throws
\* or prints nothing usable
GcloudProject(w) ==
    IF ~w.gcloud.ok THEN Undefined
    ELSE LET projectId == Trim(w.gcloud.out)
         IN IF Truthy(projectId) /\ projectId # Str_unset
            THEN projectId ELSE Undefined

\* the earlier revision of initialize: a missing project id is fatal
GcpRequireProjectId(resolved) ==
    IF Truthy(resolved) THEN NoError
    ELSE Err("ProjectIdRequired", <<>>)

\* initialize never rejects a missing project id
GcpInitProjectCheck(resolved) == NoError

\* GCPVaultPlugin.initialize: the outcome for a config and a world
GcpInitialize(config, w) ==
    LET useKeyFilename == Truthy(config.keyFilename)
        useGac == ~useKeyFilename /\ Truthy(w.gac)
        useCredentials == ~useKeyFilename /\ ~useGac /\ config.credentials.present
        keyFilePath == IF useKeyFilename THEN config.keyFilename
                       ELSE IF useGac THEN w.gac ELSE Undefined
        readsKeyFile == (useKeyFilename \/ useGac) /\ ~Truthy(config.projectId)
        keyFile == ReadKeyFile(w, keyFilePath)
        fromCredentialSource ==
            IF readsKeyFile /\ keyFile.readable /\ Truthy(keyFile.project_id)
            THEN keyFile.project_id
            ELSE IF useCredentials /\ Truthy(config.credentials.project_id)
            THEN config.credentials.project_id
            ELSE Undefined
        afterExplicit == IF Truthy(config.projectId) THEN config.projectId
                         ELSE fromCredentialSource
        resolved == IF ~Truthy(afterExplicit) /\ Truthy(GcloudProject(w))
                    THEN GcloudProject(w) ELSE afterExplicit
        clientConfig == [projectId |-> resolved, keyFilename |-> keyFilePath,
                         credentials |-> useCredentials]
    IN IF readsKeyFile /\ ~keyFile.readable
       THEN [threw |-> TRUE, error |-> Err("KeyFileError", keyFilePath),
             resolvedProjectId |-> Undefined, client |-> FALSE,
             clientConfig |-> clientConfig]
       ELSE IF GcpInitProjectCheck(resolved) # NoError
       THEN [threw |-> TRUE, error |-> GcpInitProjectCheck(resolved),
             resolvedProjectId |-> resolved, client |-> FALSE,
             clientConfig |-> clientConfig]
       ELSE IF ~w.ctorOk
       THEN [threw |-> TRUE, error |-> Err("ClientInitError", <<>>),
             resolvedProjectId |-> resolved, client |-> FALSE,
             clientConfig |-> clientConfig]
       ELSE [threw |-> FALSE, error |-> NoError,
             resolvedProjectId |-> resolved, client |-> TRUE,
             clientConfig |-> clientConfig]

\* full format with the guard dropped: every call overwrites the project id
GcpExtractProjectIdAlways(resolved, secretId) == Split(secretId, "/")[2]

\* full format: the project id is taken from the secret id if none is set
GcpExtractProjectId(resolved, secretId) ==
    LET parts == Split(secretId, "/")
    IN IF Len(parts) >= 2 /\ parts[1] = Str_projects /\ ~Truthy(resolved)
       THEN parts[2] ELSE resolved

\* full format: "/versions/latest" is appended unless "/versions/" occurs
GcpFullFormatName(secretId) ==
    IF ~Includes(secretId, Str_slashVersionsSlash)
    THEN secretId \o Str_slashVersionsSlash \o Str_latest
    ELSE secretId

\* `projects/${p}/secrets/${s}/versions/${v}`; an undefined p prints as text
GcpResourceName(p, s, v) ==
    Str_projectsSlash \o (IF p = Undefined THEN <<"u","n","d","e","f","i","n","e","d">> ELSE p)
        \o <<"/">> \o Str_secrets \o <<"/">> \o s
        \o <<"/">> \o Str_versions \o <<"/">> \o v

\* shorthand expanded without asking whether a project id is known
GcpShorthandMissingProjectNever(resolved) == FALSE

\* shorthand needs a project id
GcpShorthandMissingProject(resolved) == ~Truthy(resolved)

\* two segments always read as secretName/version
GcpTwoSegmentNameAsVersion(resolved, parts) ==
    GcpResourceName(resolved, parts[1], parts[2])

\* two segments: projectId/secretName if the first is the project id held,
\* secretName/version otherwise
GcpTwoSegmentName(resolved, parts) ==
    IF parts[1] = resolved
    THEN GcpResourceName(parts[1], parts[2], Str_latest)
    ELSE GcpResourceName(resolved, parts[1], parts[2])

\* three segments expanded in the project id held
GcpThreeSegmentNameInProject(resolved, parts) ==
    GcpResourceName(resolved, parts[2], parts[3])

\* three segments: projectId/secretName/version
GcpThreeSegmentName(resolved, parts) ==
    GcpResourceName(parts[1], parts[2], parts[3])

\* the last accepted shape taken for every longer one too
GcpIsThreeOrMoreSegments(parts) == Len(parts) >= 3

\* parts.length === 3
GcpIsThreeSegments(parts) == Len(parts) = 3

\* shorthand: one, two or three segments
GcpShorthandName(resolved, secretId) ==
    LET parts == Split(secretId, "/")
    IN IF GcpShorthandMissingProject(resolved)
       THEN [threw |-> TRUE, error |-> Err("NoProjectId", <<>>), name |-> secretId]
       ELSE IF Len(parts) = 1
       THEN [threw |-> FALSE, error |-> NoError,
             name |-> GcpResourceName(resolved, parts[1], Str_latest)]
       ELSE IF Len(parts) = 2
       THEN [threw |-> FALSE, error |-> NoError,
             name |-> GcpTwoSegmentName(resolved, parts)]
       ELSE IF GcpIsThreeSegments(parts)
       THEN [threw |-> FALSE, error |-> NoError,
             name |-> GcpThreeSegmentName(resolved, parts)]
       ELSE [threw |-> TRUE, error |-> Err("InvalidSecretIdFormat", secretId),
             name |-> secretId]

\* GCPVaultPlugin.getSecret up to the accessSecretVersion call: the error
\* thrown or the name requested, and the plugin's project id afterwards
GcpNormalize(client, resolved, secretId) ==
    IF ~client
    THEN [threw |-> TRUE, error |-> Err("NotInitialized", Str_gcp),
          name |-> secretId, resolvedProjectId |-> resolved]
    ELSE IF StartsWith(secretId, Str_projectsSlash)
    THEN [threw |-> FALSE, error |-> NoError,
          name |-> GcpFullFormatName(secretId),
          resolvedProjectId |-> GcpExtractProjectId(resolved, secretId)]
    ELSE LET r == GcpShorthandName(resolved, secretId)
         IN [threw |-> r.threw, error |-> r.error, name |-> r.name,
             resolvedProjectId |-> resolved]

\* messages of the errors the SDK call rejects with
Msg_permission == <<"p","e","r","m","i","s","s","i","o","n">>
Msg_PermissionDenied == <<"P","e","r","m","i","s","s","i","o","n"," ","d","e","n","i","e","d">>
Msg_notFound == <<"n","o","t"," ","f","o","u","n","d">>
Msg_NotFound == <<"N","o","t","F","o","u","n","d">>
Msg_noCredentials ==
    <<"C","o","u","l","d"," ","n","o","t"," ","l","o","a","d"," ","t","h","e"," ",
      "d","e","f","a","u","l","t"," ","c","r","e","d","e","n","t","i","a","l","s">>
Msg_empty == <<"S","e","c","r","e","t"," ","v","a","l","u","e"," ","i","s"," ","e","m","p","t","y">>

\* the catch block of getSecret: three messages are rewrapped, every other
\* error is thrown again as it came
GcpCatch(name, errorMessage) ==
    IF Includes(errorMessage, Msg_PermissionDenied) \/ Includes(errorMessage, Msg_permission)
    THEN Err("PermissionDenied", errorMessage)
    ELSE IF Includes(errorMessage, Msg_notFound) \/ Includes(errorMessage, Msg_NotFound)
    THEN Err("SecretNotFound", name \o errorMessage)
    ELSE IF Includes(errorMessage, Msg_noCredentials)
    THEN Err("CredentialsNotFound", errorMessage)
    ELSE Err("Rethrown", errorMessage)

\* GCPVaultPlugin.getSecret after accessSecretVersion settled.  resp.ok says
\* whether the SDK promise resolved, resp.data is the payload text (Undefined
\* without payload), resp.message the message of the rejection
GcpResponse(name, resp) ==
    IF resp.ok /\ resp.data # Undefined
    THEN [threw |-> FALSE, error |-> NoError, value |-> resp.data]
    ELSE IF resp.ok
    THEN [threw |-> TRUE, error |-> GcpCatch(name, Msg_empty), value |-> Undefined]
    ELSE [threw |-> TRUE, error |-> GcpCatch(name, resp.message), value |-> Undefined]

-----------------------------------------------------------------------------
(* State shared by the two specifications *)

NotExited == -1
NotSpawned == <<>>
NoRequest ==
    [key |-> Undefined, token |-> Undefined, id |-> Undefined,
     path |-> Undefined, name |-> Undefined, value |-> Undefined]

\* a plugin as its constructor leaves it
NewPlugin(name) ==
    [name |-> name, client |-> FALSE, resolvedProjectId |-> Undefined,
     config |-> Undefined]

\* what the SDK double answers to accessSecretVersion / GetSecretValue
Msg_boom == <<"b","o","o","m">>
Raw_plain == <<"x">>
SdkErrors == {Msg_permission, Msg_NotFound, Msg_boom}
SdkResponses ==
    {[ok |-> TRUE, data |-> Raw_plain, message |-> <<>>],
     [ok |-> TRUE, data |-> Undefined, message |-> <<>>]}
    \cup {[ok |-> FALSE, data |-> Undefined, message |-> m] : m \in SdkErrors}

-----------------------------------------------------------------------------
(* SpecGcp: a GCPVaultPlugin instance driven through its interface,         *)
(* initialize(config) once and then getSecret calls one after the other     *)

KeyPath == <<"k">>
GacPath == <<"e">>
Project_p == <<"p">>

GcpConfigs ==
    [projectId : {Undefined, Project_p},
     keyFilename : {Undefined, KeyPath},
     credentials : {NoCredentials,
                    [present |-> TRUE, project_id |-> Undefined],
                    [present |-> TRUE, project_id |-> <<"c">>]}]

KeyFiles(projectId) ==
    {UnreadableFile,
     [readable |-> TRUE, project_id |-> Undefined],
     [readable |-> TRUE, project_id |-> projectId]}

GcpWorlds ==
    {[gac |-> g, files |-> (KeyPath :> fk) @@ (GacPath :> fe), gcloud |-> gc,
      ctorOk |-> c] :
        g \in {Undefined, GacPath}, fk \in KeyFiles(<<"f">>),
        fe \in KeyFiles(<<"h">>),
        gc \in {[ok |-> FALSE, out |-> <<>>],
                [ok |-> TRUE, out |-> Str_unset \o <<"\n">>],
                [ok |-> TRUE, out |-> <<"g","\n">>]},
        c \in BOOLEAN}

\* secret ids: full format and shorthand, well formed and not
FullId(p, s) == Str_projectsSlash \o p \o <<"/">> \o Str_secrets \o <<"/">> \o s
GcpSecretIds ==
    {FullId(<<"q">>, <<"s">>),
     FullId(<<"q">>, <<"s">>) \o Str_slashVersionsSlash \o <<"1">>,
     FullId(<<>>, <<"s">>),
     Str_projectsSlash \o <<"q">>,
     Str_projectsSlash \o Str_versions \o <<"/">> \o <<"x">>,
     FullId(Str_versions, <<"s">>),
     <<"s">>, <<"s","/","v">>, <<"p","/","s">>, <<"q","/","s","/","v">>,
     <<"a","/","b","/","c","/","d">>, <<"s","/">>, <<>>}

InitGcp ==
    /\ pc = "gcp_new"
    /\ argv = <<>>
    /\ env = <<>>
    /\ world \in GcpWorlds
    /\ vaultConfig \in [type : {Str_gcp}, params : GcpConfigs]
    /\ envVars = <<>>
    /\ command = <<>>
    /\ vault = NewPlugin(Str_gcp)
    /\ idx = 0
    /\ result = <<>>
    /\ secretValues = Undefined
    /\ request = NoRequest
    /\ getSecretLog = <<>>
    /\ error = NoError
    /\ exitCode = NotExited
    /\ spawned = NotSpawned
    /\ calls = 0
    /\ registry = <<>>
    /\ instances = <<>>

\* await plugin.initialize(config)
GcpInit ==
    /\ pc = "gcp_new"
    /\ LET r == GcpInitialize(vaultConfig.params, world)
       IN /\ pc' = IF r.threw THEN "gcp_initFailed" ELSE "gcp_ready"
          /\ error' = r.error
          /\ vault' = [vault EXCEPT !.client = r.client,
                                    !.resolvedProjectId = r.resolvedProjectId,
                                    !.config = vaultConfig.params]
    /\ UNCHANGED <<argv, env, world, vaultConfig, envVars, command, idx, result,
                   secretValues, request, getSecretLog, exitCode, spawned, calls, registry,
                   instances>>

\* plugin.getSecret(secretId) up to its await
GcpGetSecret(secretId) ==
    /\ pc = "gcp_ready"
    /\ calls < MaxCalls
    /\ LET r == GcpNormalize(vault.client, vault.resolvedProjectId, secretId)
       IN /\ pc' = IF r.threw THEN "gcp_threw" ELSE "gcp_access"
          /\ error' = r.error
          /\ vault' = [vault EXCEPT !.resolvedProjectId = r.resolvedProjectId]
          /\ request' = [NoRequest EXCEPT !.id = secretId, !.name = r.name]
    /\ calls' = calls + 1
    /\ UNCHANGED <<argv, env, world, vaultConfig, envVars, command, idx, result,
                   secretValues, getSecretLog, exitCode, spawned, registry,
                   instances>>

\* accessSecretVersion settles and getSecret returns or throws
GcpAccessSettles(resp) ==
    /\ pc = "gcp_access"
    /\ LET r == GcpResponse(request.name, resp)
       IN /\ pc' = IF r.threw THEN "gcp_threw" ELSE "gcp_returned"
          /\ error' = r.error
          /\ request' = [request EXCEPT !.value = r.value]
    /\ UNCHANGED <<argv, env, world, vaultConfig, envVars, command, vault, idx,
                   result, secretValues, getSecretLog, exitCode, spawned, calls, registry,
                   instances>>

\* the caller has the value or the error and goes on
GcpCallerContinues ==
    /\ pc \in {"gcp_threw", "gcp_returned"}
    /\ pc' = "gcp_ready"
    /\ error' = NoError
    /\ request' = NoRequest
    /\ UNCHANGED <<argv, env, world, vaultConfig, envVars, command, vault, idx,
                   result, secretValues, getSecretLog, exitCode, spawned, calls, registry,
                   instances>>

NextGcp ==
    \/ GcpInit
    \/ \E secretId \in GcpSecretIds : GcpGetSecret(secretId)
    \/ \E resp \in SdkResponses : GcpAccessSettles(resp)
    \/ GcpCallerContinues

SpecGcp == InitGcp /\ [][NextGcp]_vars

-----------------------------------------------------------------------------
(* Properties of the GCP plugin, checked under SpecGcp *)

GcpServing == {"gcp_ready", "gcp_access", "gcp_threw", "gcp_returned"}
GcpCalled == {"gcp_access", "gcp_threw", "gcp_returned"}
IsFullFormat(secretId) == StartsWith(secretId, Str_projectsSlash)

\* the project id initialize left in the instance
InitProjectId == GcpInitialize(vaultConfig.params, world).resolvedProjectId

SdkErrorKinds == {"PermissionDenied", "SecretNotFound", "CredentialsNotFound", "Rethrown"}

FirstOf(candidates) ==
    IF \E i \in 1..Len(candidates) : Truthy(candidates[i])
    THEN candidates[CHOOSE i \in 1..Len(candidates) :
                      /\ Truthy(candidates[i])
                      /\ \A j \in 1..(i-1) : ~Truthy(candidates[j])]
    ELSE Undefined
ExpectedProjectId ==
    LET config == vaultConfig.params
        keyFilePath == IF Truthy(config.keyFilename) THEN config.keyFilename
                       ELSE world.gac
    IN FirstOf(<<config.projectId,
                 ReadKeyFile(world, keyFilePath).project_id,
                 config.credentials.project_id,
                 GcloudProject(world)>>)

\* C9 as claimed: initialize resolves the project id of the first source, in
\* the order explicit, key file, inline credentials, gcloud, that has one
C9_FirstSourceWins ==
    (pc = "gcp_ready" /\ calls = 0) => vault.resolvedProjectId = ExpectedProjectId

IsCanonicalName(name) ==
    LET parts == Split(name, "/")
    IN /\ Len(parts) = 6
       /\ parts[1] = Str_projects /\ parts[3] = Str_secrets
       /\ parts[5] = Str_versions
       /\ parts[2] # <<>> /\ parts[4] # <<>> /\ parts[6] # <<>>

\* C10 as claimed: every name passed to accessSecretVersion has the shape
\* projects/P/secrets/S/versions/V with non-empty P, S and V
C10_AccessNameCanonical ==
    pc = "gcp_access" => IsCanonicalName(request.name)

\* the segments of an identifier and the resource name made of six of them
Segments(secretId) == Split(secretId, "/")
NameOf(p, s, v) ==
    Join(<<Str_projects, p, Str_secrets, s, Str_versions, v>>, <<"/">>)

\* projects/P/secrets/S/versions/V: the identifier names a version
HasVersion(secretId) ==
    /\ Len(Segments(secretId)) = 6
    /\ Segments(secretId)[1] = Str_projects
    /\ Segments(secretId)[3] = Str_secrets
    /\ Segments(secretId)[5] = Str_versions

\* C11 as claimed: a full-format identifier that has a version is requested
\* unchanged, one without a version is requested with "/versions/latest"
\* appended once, and normalizing a requested name again gives the same name
C11_NormalizeIdempotent ==
    pc = "gcp_access" =>
        /\ (IsFullFormat(request.id) /\ HasVersion(request.id))
              => request.name = request.id
        /\ (IsFullFormat(request.id) /\ ~HasVersion(request.id))
              => request.name = request.id \o Str_slashVersionsSlash \o Str_latest
        /\ ~GcpNormalize(vault.client, vault.resolvedProjectId, request.name).threw
        /\ GcpNormalize(vault.client, vault.resolvedProjectId, request.name).name
              = request.name

\* a shorthand call the normalizer accepted
ShorthandAccepted(n) ==
    /\ pc \in GcpCalled
    /\ ~IsFullFormat(request.id)
    /\ Len(Segments(request.id)) = n
    /\ Truthy(vault.resolvedProjectId)

\* normalization did not throw: the call reached accessSecretVersion
ReachedAccess == pc = "gcp_threw" => error.kind \in SdkErrorKinds

\* C12: with project id p held, the shorthand A/B is requested as
\* projects/A/secrets/B/versions/latest if A = p and as
\* projects/p/secrets/A/versions/B otherwise
C12_TwoSegmentTieBreak ==
    ShorthandAccepted(2) =>
        /\ ReachedAccess
        /\ request.name =
              IF Segments(request.id)[1] = vault.resolvedProjectId
              THEN NameOf(Segments(request.id)[1], Segments(request.id)[2], Str_latest)
              ELSE NameOf(vault.resolvedProjectId, Segments(request.id)[1],
                          Segments(request.id)[2])

\* p/s requested on an instance holding project id p
C12_Witness ==
    /\ pc = "gcp_access"
    /\ request.id = <<"p","/","s">>
    /\ vault.resolvedProjectId = Project_p
    /\ request.name = NameOf(<<"p">>, <<"s">>, Str_latest)

\* C13: with project id p held, the shorthand N is requested as
\* projects/p/secrets/N/versions/latest and the shorthand A/B/C as
\* projects/A/secrets/B/versions/C, whatever p is
C13_OneAndThreeSegments ==
    /\ ShorthandAccepted(1) =>
          /\ ReachedAccess
          /\ request.name = NameOf(vault.resolvedProjectId, request.id, Str_latest)
    /\ ShorthandAccepted(3) =>
          /\ ReachedAccess
          /\ request.name = NameOf(Segments(request.id)[1], Segments(request.id)[2],
                                   Segments(request.id)[3])

\* q/s/v requested on an instance holding project id p
C13_Witness ==
    /\ pc = "gcp_access"
    /\ request.id = <<"q","/","s","/","v">>
    /\ vault.resolvedProjectId = Project_p
    /\ request.name = NameOf(<<"q">>, <<"s">>, <<"v">>)

\* a call with a shorthand identifier of four or more segments
LongShorthandCalled ==
    /\ pc \in GcpCalled
    /\ ~IsFullFormat(request.id)
    /\ Len(Segments(request.id)) >= 4

\* C14 as claimed: a shorthand identifier of four or more segments is
\* rejected with the invalid-format error before any accessSecretVersion call
C14_LongShorthandInvalidFormat ==
    LongShorthandCalled
        => (pc = "gcp_threw" /\ error = Err("InvalidSecretIdFormat", request.id))

\* C14 amended: such an identifier never reaches accessSecretVersion; it is
\* rejected with the invalid-format error if the instance holds a project id
\* and with the missing-project error if it holds none
C14_LongShorthandRejected ==
    LongShorthandCalled =>
        /\ pc = "gcp_threw"
        /\ Truthy(vault.resolvedProjectId)
              => error = Err("InvalidSecretIdFormat", request.id)
        /\ ~Truthy(vault.resolvedProjectId) => error.kind = "NoProjectId"

\* a/b/c/d rejected on an instance holding a project id
C14_Witness ==
    /\ pc = "gcp_threw"
    /\ request.id = <<"a","/","b","/","c","/","d">>
    /\ Truthy(vault.resolvedProjectId)
    /\ error.kind = "InvalidSecretIdFormat"

-----------------------------------------------------------------------------
(* JavaScript objects used as string-keyed maps: the own properties as a    *)
(* sequence of <<key, value>> in insertion order                            *)

HasOwn(obj, key) == \E i \in 1..Len(obj) : obj[i][1] = key
PropGet(obj, key) ==
    IF HasOwn(obj, key)
    THEN obj[CHOOSE i \in 1..Len(obj) : obj[i][1] = key][2]
    ELSE Undefined
\* obj[key] = value: an existing property keeps its place
PropSet(obj, key, value) ==
    IF HasOwn(obj, key)
    THEN [i \in 1..Len(obj) |-> IF obj[i][1] = key THEN <<key, value>> ELSE obj[i]]
    ELSE Append(obj, <<key, value>>)

Digits == <<"0","1","2","3","4","5","6","7","8","9">>
IsDigit(c) == \E d \in 1..10 : Digits[d] = c
DigitValue(c) == (CHOOSE d \in 1..10 : Digits[d] = c) - 1
\* a < b for canonical numeric strings, digit by digit (the numbers
\* themselves exceed the integers of the checker)
NumericLess(a, b) ==
    \/ Len(a) < Len(b)
    \/ /\ Len(a) = Len(b)
       /\ \E i \in 1..Len(a) :
             /\ DigitValue(a[i]) < DigitValue(b[i])
             /\ \A j \in 1..(i-1) : a[j] = b[j]

\* 2^32 - 1, the first number that is not an array index
Str_MaxUint32 == <<"4","2","9","4","9","6","7","2","9","5">>

\* a property key that is an array index: a canonical numeric string
\* below 2^32 - 1
IsArrayIndex(key) ==
    /\ key # <<>>
    /\ \A i \in 1..Len(key) : IsDigit(key[i])
    /\ (Len(key) = 1 \/ key[1] # "0")
    /\ NumericLess(key, Str_MaxUint32)

\* the properties sorted by ascending numeric key (selection sort)
RECURSIVE SortByIndex(_)
SortByIndex(props) ==
    IF props = <<>> THEN <<>>
    ELSE LET m == CHOOSE i \in 1..Len(props) :
                      \A j \in 1..Len(props) :
                          ~NumericLess(props[j][1], props[i][1])
             rest == [i \in 1..(Len(props) - 1) |->
                          IF i < m THEN props[i] ELSE props[i + 1]]
         IN <<props[m]>> \o SortByIndex(rest)

IsIndexProp(prop) == IsArrayIndex(prop[1])
IsNamedProp(prop) == ~IsArrayIndex(prop[1])

\* Object.entries: array-index keys first, in ascending numeric order, then
\* the other keys in insertion order
ObjectEntries(obj) ==
    SortByIndex(SelectSeq(obj, IsIndexProp)) \o SelectSeq(obj, IsNamedProp)

UpperCase == <<"A","B","C","D","E","F","G","H","I","J","K","L","M","N","O","P","Q","R","S","T","U","V","W","X","Y","Z">>
LowerCase == <<"a","b","c","d","e","f","g","h","i","j","k","l","m","n","o","p","q","r","s","t","u","v","w","x","y","z">>
\* String.prototype.toLowerCase
ToLowerCase(s) ==
    [i \in 1..Len(s) |->
        IF \E u \in 1..26 : UpperCase[u] = s[i]
        THEN LowerCase[CHOOSE u \in 1..26 : UpperCase[u] = s[i]]
        ELSE s[i]]

\* element i (1-based) of an array, undefined beyond its end
Elem(arr, i) == IF i <= Len(arr) THEN arr[i] ELSE Undefined

-----------------------------------------------------------------------------
(* VaultConfigParser *)

Str_dashDash == <<"-","-">>
Str_vaultDash == <<"-","-","v","a","u","l","t","-">>
Str_vaultTypeEq == <<"-","-","v","a","u","l","t","-","t","y","p","e","=">>
Str_VAULT_ == <<"V","A","U","L","T","_">>
Str_VAULT_TYPE == <<"V","A","U","L","T","_","T","Y","P","E">>
Str_projectId == <<"p","r","o","j","e","c","t","I","d">>
Str_keyFilename == <<"k","e","y","F","i","l","e","n","a","m","e">>
Str_credentials == <<"c","r","e","d","e","n","t","i","a","l","s">>

NoConfig == [type |-> Undefined, params |-> <<>>]

IsVaultTypeArg(arg) == StartsWith(arg, Str_vaultTypeEq)
IsVaultArg(arg) == StartsWith(arg, Str_vaultDash)
IsNotVaultArg(arg) == ~StartsWith(arg, Str_vaultDash)

\* the loop of parseFromArgs over the --vault-* arguments
RECURSIVE ArgParams(_, _)
ArgParams(args, params) ==
    IF args = <<>> THEN params
    ELSE LET arg == Head(args)
             kv == Split(SubstringFrom(arg, 8), "=")
             key == Elem(kv, 1)
             value == Elem(kv, 2)
         IN IF IsVaultArg(arg) /\ ~IsVaultTypeArg(arg) /\ Truthy(key) /\ Truthy(value)
            THEN ArgParams(Tail(args), PropSet(params, key, value))
            ELSE ArgParams(Tail(args), params)

\* VaultConfigParser.parseFromArgs, NoConfig for null
parseFromArgs(args) ==
    IF ~\E i \in 1..Len(args) : IsVaultTypeArg(args[i]) THEN NoConfig
    ELSE LET vaultTypeArg == SelectSeq(args, IsVaultTypeArg)[1]
         IN [type |-> Split(vaultTypeArg, "=")[2],
             params |-> ArgParams(args, <<>>)]

\* the loop of parseFromEnv over process.env
RECURSIVE EnvParams(_, _)
EnvParams(entries, params) ==
    IF entries = <<>> THEN params
    ELSE LET key == Head(entries)[1]
             value == Head(entries)[2]
         IN IF StartsWith(key, Str_VAULT_) /\ key # Str_VAULT_TYPE
            THEN EnvParams(Tail(entries),
                           PropSet(params, ToLowerCase(SubstringFrom(key, 6)), value))
            ELSE EnvParams(Tail(entries), params)

\* VaultConfigParser.parseFromEnv, NoConfig for null
parseFromEnv(e) ==
    IF ~Truthy(PropGet(e, Str_VAULT_TYPE)) THEN NoConfig
    ELSE [type |-> PropGet(e, Str_VAULT_TYPE),
          params |-> EnvParams(ObjectEntries(e), <<>>)]

\* the VAULT_* variables added to the parameters of the arguments
getVaultConfigMerged(args, e) ==
    IF parseFromArgs(args) # NoConfig
    THEN [threw |-> FALSE, error |-> NoError,
          config |-> [type |-> parseFromArgs(args).type,
                      params |-> EnvParams(ObjectEntries(e), parseFromArgs(args).params)]]
    ELSE IF parseFromEnv(e) # NoConfig
    THEN [threw |-> FALSE, error |-> NoError, config |-> parseFromEnv(e)]
    ELSE [threw |-> TRUE, error |-> Err("NoVaultConfig", <<>>), config |-> NoConfig]

\* VaultConfigParser.getVaultConfig
getVaultConfig(args, e) ==
    IF parseFromArgs(args) # NoConfig
    THEN [threw |-> FALSE, error |-> NoError, config |-> parseFromArgs(args)]
    ELSE IF parseFromEnv(e) # NoConfig
    THEN [threw |-> FALSE, error |-> NoError, config |-> parseFromEnv(e)]
    ELSE [threw |-> TRUE, error |-> Err("NoVaultConfig", <<>>), config |-> NoConfig]

\* VaultConfigParser.removeVaultArgs
removeVaultArgs(args) == SelectSeq(args, IsNotVaultArg)

-----------------------------------------------------------------------------
(* SpecConfig: VaultConfigParser.getVaultConfig called with a command line   *)
(* and an environment                                                       *)

Str_VAULT_PROJECTID == Str_VAULT_ \o <<"P","R","O","J","E","C","T","I","D">>
Str_VAULT_REGION == Str_VAULT_ \o <<"R","E","G","I","O","N">>
Arg_vaultTypeGcp == Str_vaultTypeEq \o Str_gcp
Arg_vaultTypeAws == Str_vaultTypeEq \o Str_aws
Arg_vaultProjectId == Str_vaultDash \o Str_projectId \o <<"=">> \o <<"p">>
Arg_vaultRegion == Str_vaultDash \o <<"r","e","g","i","o","n","=","r">>

ConfigArgLists ==
    {<<>>, <<Arg_vaultTypeGcp>>, <<Arg_vaultTypeGcp, Arg_vaultProjectId>>,
     <<Arg_vaultProjectId>>, <<Str_vaultTypeEq>>,
     <<Arg_vaultRegion, Arg_vaultTypeAws, <<"A","=","s">>, Str_dashDash, <<"c">>>>,
     <<<<"A","=","s">>, Str_dashDash, <<"c">>>>,
     <<Str_dashDash, <<"c">>, Arg_vaultTypeGcp>>,
     <<Arg_vaultTypeAws, Arg_vaultTypeGcp, Arg_vaultProjectId, Arg_vaultRegion>>}

ConfigEnvs ==
    {<<>>,
     << <<Str_VAULT_TYPE, Str_gcp>> >>,
     << <<Str_VAULT_TYPE, Str_gcp>>, <<Str_VAULT_PROJECTID, <<"q">>>> >>,
     << <<Str_VAULT_PROJECTID, <<"q">>>> >>,
     << <<Str_VAULT_TYPE, <<>>>>, <<Str_VAULT_PROJECTID, <<"q">>>> >>,
     << <<<<"H","O","M","E">>, <<"h">>>>, <<Str_VAULT_REGION, <<"e">>>>,
        <<Str_VAULT_TYPE, Str_aws>> >>,
     << <<<<"H","O","M","E">>, <<"h">>>> >>}

InitConfig ==
    /\ pc = "config_new"
    /\ argv \in ConfigArgLists
    /\ env \in ConfigEnvs
    /\ world = <<>>
    /\ vaultConfig = NoConfig
    /\ envVars = <<>>
    /\ command = <<>>
    /\ vault = NewPlugin(Undefined)
    /\ idx = 0
    /\ result = <<>>
    /\ secretValues = Undefined
    /\ request = NoRequest
    /\ getSecretLog = <<>>
    /\ error = NoError
    /\ exitCode = NotExited
    /\ spawned = NotSpawned
    /\ calls = 0
    /\ registry = <<>>
    /\ instances = <<>>

\* VaultConfigParser.getVaultConfig(args) returns a configuration or throws
ConfigCall ==
    /\ pc = "config_new"
    /\ LET r == getVaultConfig(argv, env)
       IN /\ pc' = IF r.threw THEN "config_threw" ELSE "config_returned"
          /\ error' = r.error
          /\ vaultConfig' = r.config
    /\ UNCHANGED <<argv, env, world, envVars, command, vault, idx, result,
                   secretValues, request, getSecretLog, exitCode, spawned, calls,
                   registry, instances>>

NextConfig == ConfigCall

SpecConfig == InitConfig /\ [][NextConfig]_vars

-----------------------------------------------------------------------------
(* Properties of getVaultConfig, checked under SpecConfig *)

HasTypeArg == \E i \in 1..Len(argv) : StartsWith(argv[i], Str_vaultTypeEq)
EnvTypeSet ==
    \E i \in 1..Len(env) : env[i][1] = Str_VAULT_TYPE /\ env[i][2] # <<>>

\* a parameter as a --vault- argument and as a VAULT_ variable give it
ParamFromArgs(prop) ==
    \E i \in 1..Len(argv) : argv[i] = Str_vaultDash \o prop[1] \o <<"=">> \o prop[2]
ParamFromEnv(prop) ==
    \E i \in 1..Len(env) :
        /\ StartsWith(env[i][1], Str_VAULT_)
        /\ ToLowerCase(SubSeq(env[i][1], 7, Len(env[i][1]))) = prop[1]
        /\ env[i][2] = prop[2]

\* C24: with a --vault-type= argument the type and every parameter come from
\* --vault- arguments and every such argument gives a parameter; without
\* one and with VAULT_TYPE set (to a text that is not empty) the type and
\* every parameter come from VAULT_ variables; otherwise the call throws
\* the no-configuration error
C24_StrictFallback ==
    /\ (pc # "config_new" /\ HasTypeArg) =>
          /\ pc = "config_returned"
          /\ \E i \in 1..Len(argv) : argv[i] = Str_vaultTypeEq \o vaultConfig.type
          /\ \A n \in 1..Len(vaultConfig.params) : ParamFromArgs(vaultConfig.params[n])
          /\ \A i \in 1..Len(argv) :
                (IsVaultArg(argv[i]) /\ ~IsVaultTypeArg(argv[i]))
                => \E n \in 1..Len(vaultConfig.params) :
                      argv[i] = Str_vaultDash \o vaultConfig.params[n][1] \o <<"=">>
                                  \o vaultConfig.params[n][2]
    /\ (pc # "config_new" /\ ~HasTypeArg /\ EnvTypeSet) =>
          /\ pc = "config_returned"
          /\ vaultConfig.type = PropGet(env, Str_VAULT_TYPE)
          /\ \A n \in 1..Len(vaultConfig.params) : ParamFromEnv(vaultConfig.params[n])
          /\ \A i \in 1..Len(env) :
                (StartsWith(env[i][1], Str_VAULT_) /\ env[i][1] # Str_VAULT_TYPE)
                => \E n \in 1..Len(vaultConfig.params) :
                      ParamFromEnv(vaultConfig.params[n])
                      /\ vaultConfig.params[n][2] = env[i][2]
    /\ (pc # "config_new" /\ ~HasTypeArg /\ ~EnvTypeSet) =>
          (pc = "config_threw" /\ error.kind = "NoVaultConfig")

\* a --vault-type argument given together with VAULT_ variables: the
\* configuration has the parameter of the argument and none of the variables
C24_Witness ==
    /\ pc = "config_returned"
    /\ argv = <<Arg_vaultTypeGcp, Arg_vaultProjectId>>
    /\ env = << <<Str_VAULT_TYPE, Str_gcp>>, <<Str_VAULT_PROJECTID, <<"q">>>> >>
    /\ vaultConfig = [type |-> Str_gcp, params |-> << <<Str_projectId, <<"p">>>> >>]

-----------------------------------------------------------------------------
(* cli: parseCliArgs *)

\* the loop of parseCliArgs over the arguments before "--"
RECURSIVE EnvVarArgs(_, _)
EnvVarArgs(args, obj) ==
    IF args = <<>> THEN [threw |-> FALSE, error |-> NoError, envVars |-> obj]
    ELSE LET arg == Head(args)
             kv == Split(arg, "=")
         IN IF IndexOf(arg, "=") = -1
            THEN [threw |-> TRUE, error |-> Err("InvalidFormat", arg), envVars |-> obj]
            ELSE EnvVarArgs(Tail(args), PropSet(obj, kv[1], kv[2]))

parseCliArgs(args) ==
    LET delimiterIndex == IndexOf(args, Str_dashDash)
    IN IF delimiterIndex # -1
       THEN LET r == EnvVarArgs(SubSeq(args, 1, delimiterIndex), <<>>)
            IN [threw |-> r.threw, error |-> r.error, envVars |-> r.envVars,
                command |-> SubSeq(args, delimiterIndex + 2, Len(args))]
       ELSE [threw |-> FALSE, error |-> NoError, envVars |-> <<>>,
             command |-> args]

-----------------------------------------------------------------------------
(* cli: validateJsonPath and extractJsonPath *)

\* parsed JSON values
JString(str) == [kind |-> "string", v |-> str]
JNumber(n) == [kind |-> "number", v |-> n]
JBoolean(b) == [kind |-> "boolean", v |-> b]
JNull == [kind |-> "null", v |-> <<>>]
JArray(items) == [kind |-> "array", v |-> items]
JObject(props) == [kind |-> "object", v |-> props]
\* a method inherited from Object.prototype, and Object.prototype itself
JFunction == [kind |-> "function", v |-> <<>>]
JObjectPrototype == [kind |-> "prototype", v |-> <<>>]

Raw_doc ==
    <<"{","\"","a","\"",":","{","\"","b","\"",":","7","}",",","\"","c","\"",":",
      "\"","v","\"",",","\"","n","\"",":","n","u","l","l",",","\"","l","\"",":",
      "[","1","]","}">>
Raw_array == <<"[","1","]">>
Raw_number == <<"7">>
Raw_null == <<"n","u","l","l">>
\* {"t":true,"f":false,"z":0,"e":"","o":{},"s":"null"}
Raw_falsy ==
    <<"{","\"","t","\"",":","t","r","u","e",",","\"","f","\"",":","f","a","l","s","e",",",
      "\"","z","\"",":","0",",","\"","e","\"",":","\"","\"",",","\"","o","\"",":","{","}",",",
      "\"","s","\"",":","\"","n","u","l","l","\"","}">>
Raw_string == <<"\"","v","\"">>
Raw_false == <<"f","a","l","s","e">>
Raw_emptyObject == <<"{","}">>
\* {"a":{"b":0},"c":"","n":null,"l":[0]}
Raw_docTwin ==
    <<"{","\"","a","\"",":","{","\"","b","\"",":","0","}",",","\"","c","\"",":","\"",
      "\"",",","\"","n","\"",":","n","u","l","l",",","\"","l","\"",":","[","0","]","}">>
\* {"c":"w","a":{"b":1},"l":[2],"n":null}
Raw_docReordered ==
    <<"{","\"","c","\"",":","\"","w","\"",",","\"","a","\"",":","{","\"","b","\"",":",
      "1","}",",","\"","l","\"",":","[","2","]",",","\"","n","\"",":","n","u","l","l",
      "}">>
\* {"t":false,"f":true,"z":5,"e":"u","o":{},"s":"x"}
Raw_truthy ==
    <<"{","\"","t","\"",":","f","a","l","s","e",",","\"","f","\"",":","t","r","u","e",
      ",","\"","z","\"",":","5",",","\"","e","\"",":","\"","u","\"",",","\"","o","\"",
      ":","{","}",",","\"","s","\"",":","\"","x","\"","}">>
\* 0
Raw_zero ==
    <<"0">>
\* ""
Raw_emptyString ==
    <<"\"","\"">>
\* true
Raw_true ==
    <<"t","r","u","e">>
\* texts JSON.parse rejects
Raw_empty == <<>>
Raw_unquoted == <<"{","a",":","1","}">>

\* JSON.parse on the raw secrets of the model; any other text is a SyntaxError
JsonParse(jsonString) ==
    IF jsonString = Raw_doc
    THEN [ok |-> TRUE,
          value |-> JObject(<< <<<<"a">>, JObject(<< <<<<"b">>, JNumber(7)>> >>)>>,
                               <<<<"c">>, JString(<<"v">>)>>,
                               <<<<"n">>, JNull>>,
                               <<<<"l">>, JArray(<<JNumber(1)>>)>> >>)]
    ELSE IF jsonString = Raw_array
    THEN [ok |-> TRUE, value |-> JArray(<<JNumber(1)>>)]
    ELSE IF jsonString = Raw_number
    THEN [ok |-> TRUE, value |-> JNumber(7)]
    ELSE IF jsonString = Raw_null
    THEN [ok |-> TRUE, value |-> JNull]
    ELSE IF jsonString = Raw_falsy
    THEN [ok |-> TRUE,
          value |-> JObject(<< <<<<"t">>, JBoolean(TRUE)>>,
                               <<<<"f">>, JBoolean(FALSE)>>,
                               <<<<"z">>, JNumber(0)>>,
                               <<<<"e">>, JString(<<>>)>>,
                               <<<<"o">>, JObject(<<>>)>>,
                               <<<<"s">>, JString(Raw_null)>> >>)]
    ELSE IF jsonString = Raw_string
    THEN [ok |-> TRUE, value |-> JString(<<"v">>)]
    ELSE IF jsonString = Raw_false
    THEN [ok |-> TRUE, value |-> JBoolean(FALSE)]
    ELSE IF jsonString = Raw_emptyObject
    THEN [ok |-> TRUE, value |-> JObject(<<>>)]
    ELSE IF jsonString = Raw_docTwin
    THEN [ok |-> TRUE,
          value |-> JObject(<< <<<<"a">>, JObject(<< <<<<"b">>, JNumber(0)>> >>)>>,
                               <<<<"c">>, JString(<<>>)>>,
                               <<<<"n">>, JNull>>,
                               <<<<"l">>, JArray(<<JNumber(0)>>)>> >>)]
    ELSE IF jsonString = Raw_docReordered
    THEN [ok |-> TRUE,
          value |-> JObject(<< <<<<"c">>, JString(<<"w">>)>>,
                               <<<<"a">>, JObject(<< <<<<"b">>, JNumber(1)>> >>)>>,
                               <<<<"l">>, JArray(<<JNumber(2)>>)>>,
                               <<<<"n">>, JNull>> >>)]
    ELSE IF jsonString = Raw_truthy
    THEN [ok |-> TRUE,
          value |-> JObject(<< <<<<"t">>, JBoolean(FALSE)>>,
                               <<<<"f">>, JBoolean(TRUE)>>,
                               <<<<"z">>, JNumber(5)>>,
                               <<<<"e">>, JString(<<"u">>)>>,
                               <<<<"o">>, JObject(<<>>)>>,
                               <<<<"s">>, JString(<<"x">>)>> >>)]
    ELSE IF jsonString = Raw_zero
    THEN [ok |-> TRUE, value |-> JNumber(0)]
    ELSE IF jsonString = Raw_emptyString
    THEN [ok |-> TRUE, value |-> JString(<<>>)]
    ELSE IF jsonString = Raw_true
    THEN [ok |-> TRUE, value |-> JBoolean(TRUE)]
    ELSE [ok |-> FALSE, value |-> JNull]

\* String(n) for an integer
RECURSIVE NatToString(_)
NatToString(n) ==
    IF n < 10 THEN <<Digits[n + 1]>>
    ELSE NatToString(n \div 10) \o <<Digits[(n % 10) + 1]>>
NumberToString(n) == IF n < 0 THEN <<"-">> \o NatToString(-n) ELSE NatToString(n)
BooleanToString(b) == IF b THEN <<"t","r","u","e">> ELSE <<"f","a","l","s","e">>

\* typeof
TypeOf(value) ==
    IF value.kind \in {"object", "array", "null", "prototype"} THEN "object"
    ELSE value.kind

\* !value
Falsy(value) ==
    \/ value.kind = "null"
    \/ (value.kind = "string" /\ value.v = <<>>)
    \/ (value.kind = "number" /\ value.v = 0)
    \/ (value.kind = "boolean" /\ ~value.v)

\* the test without Array.isArray
NotPlainObjectTypeofOnly(value) == Falsy(value) \/ TypeOf(value) # "object"

\* !value || typeof value !== "object" || Array.isArray(value)
NotPlainObject(value) ==
    Falsy(value) \/ TypeOf(value) # "object" \/ value.kind = "array"

\* names every object inherits from Object.prototype
Str_constructor == <<"c","o","n","s","t","r","u","c","t","o","r">>
Str_toString == <<"t","o","S","t","r","i","n","g">>
Str_proto == <<"_","_","p","r","o","t","o","_","_">>
InheritedMethods == {Str_constructor, Str_toString}

\* the own enumerable properties of an object or an array
ArrayProps(items) == [i \in 1..Len(items) |-> <<NatToString(i - 1), items[i]>>]
OwnProps(value) == IF value.kind = "array" THEN ArrayProps(value.v) ELSE value.v

\* key in value: own and inherited properties alike
HasProperty(value, key) ==
    HasOwn(OwnProps(value), key) \/ key \in InheritedMethods \/ key = Str_proto

\* value[key], for a property the object has; the prototype of
\* Object.prototype is null
GetProperty(value, key) ==
    IF HasOwn(OwnProps(value), key) THEN PropGet(OwnProps(value), key)
    ELSE IF key = Str_proto
    THEN (IF value.kind = "prototype" THEN JNull ELSE JObjectPrototype)
    ELSE JFunction

\* Object.keys
RECURSIVE KeysOf(_)
KeysOf(entries) ==
    IF entries = <<>> THEN <<>> ELSE <<Head(entries)[1]>> \o KeysOf(Tail(entries))
ObjectKeys(value) == KeysOf(ObjectEntries(OwnProps(value)))

validateJsonPath(jsonPath) ==
    IF Len(jsonPath) = 0 THEN Err("JsonPathEmpty", <<>>)
    ELSE IF StartsWith(jsonPath, <<".">>) \/ EndsWith(jsonPath, <<".">>)
    THEN Err("JsonPathDotAtEnd", jsonPath)
    ELSE IF \E i \in 1..Len(Split(jsonPath, ".")) : Len(Split(jsonPath, ".")[i]) = 0
    THEN Err("JsonPathEmptySegment", jsonPath)
    ELSE NoError

Str_topLevel == <<"t","o","p","-","l","e","v","e","l">>
Str_none == <<"(","n","o","n","e",")">>

\* the final value converted with String(value) whatever it is
TerminalValueAsText(jsonPath, value) ==
    [threw |-> FALSE, error |-> NoError,
     value |-> IF value.kind = "string" THEN value.v
               ELSE IF value.kind = "number" THEN NumberToString(value.v)
               ELSE IF value.kind = "boolean" THEN BooleanToString(value.v)
               ELSE IF value.kind = "null" THEN Raw_null
               ELSE <<"[","o","b","j","e","c","t"," ","O","b","j","e","c","t","]">>]

\* step 4 of extractJsonPath: the final value as a string
TerminalValue(jsonPath, value) ==
    IF value.kind = "string"
    THEN [threw |-> FALSE, error |-> NoError, value |-> value.v]
    ELSE IF value.kind = "number"
    THEN [threw |-> FALSE, error |-> NoError, value |-> NumberToString(value.v)]
    ELSE IF value.kind = "boolean"
    THEN [threw |-> FALSE, error |-> NoError, value |-> BooleanToString(value.v)]
    ELSE IF value.kind = "null"
    THEN [threw |-> TRUE, error |-> Err("ValueIsNull", jsonPath), value |-> Undefined]
    ELSE IF value.kind = "array"
    THEN [threw |-> TRUE, error |-> Err("ValueIsArray", jsonPath), value |-> Undefined]
    ELSE [threw |-> TRUE, error |-> Err("ValueIsObject", jsonPath), value |-> Undefined]

\* the description that tells an empty or zero value from the others
ValueTypeByTruthiness(value) ==
    IF value.kind = "array" THEN "array"
    ELSE IF Falsy(value) THEN "null"
    ELSE TypeOf(value)

\* valueType: "array", "null", or the typeof of the value
ValueType(value) ==
    IF value.kind \in {"array", "null"} THEN value.kind ELSE TypeOf(value)

\* step 3 of extractJsonPath: the loop over the keys, from keys[i] on
RECURSIVE Traverse(_, _, _, _, _)
Traverse(jsonPath, keys, i, value, pathSegments) ==
    IF i > Len(keys) THEN TerminalValue(jsonPath, value)
    ELSE LET key == keys[i]
             pathDescription == IF Len(pathSegments) > 0
                                THEN Join(pathSegments, <<".">>)
                                ELSE Str_topLevel
         IN IF NotPlainObject(value)
            THEN [threw |-> TRUE,
                  error |-> Err("NotAPlainObject",
                                <<jsonPath, pathDescription, ValueType(value), key>>),
                  value |-> Undefined]
            ELSE IF HasProperty(value, key)
            THEN Traverse(jsonPath, keys, i + 1, GetProperty(value, key),
                          Append(pathSegments, key))
            ELSE [threw |-> TRUE,
                  error |-> Err("KeyNotFound",
                                <<jsonPath, key, pathDescription,
                                  IF Len(ObjectKeys(value)) > 0
                                  THEN Join(ObjectKeys(value), <<",", " ">>)
                                  ELSE Str_none>>),
                  value |-> Undefined]

\* the SyntaxError of JSON.parse thrown on as it came
JsonParseRethrown(jsonPath) == Err("SyntaxError", <<>>)

\* the catch block around JSON.parse: a SyntaxError becomes the not-valid-JSON
\* error, which names the path and the '#path' suffix to remove
JsonParseFailed(jsonPath) == Err("NotValidJson", jsonPath)

\* steps 1 to 4 of extractJsonPath, after the path was validated
ExtractParsed(jsonString, jsonPath) ==
    IF ~JsonParse(jsonString).ok
    THEN [threw |-> TRUE, error |-> JsonParseFailed(jsonPath), value |-> Undefined]
    ELSE IF NotPlainObject(JsonParse(jsonString).value)
    THEN [threw |-> TRUE,
          error |-> Err("RootNotAnObject",
                        <<jsonPath, ValueType(JsonParse(jsonString).value)>>),
          value |-> Undefined]
    ELSE Traverse(jsonPath, Split(jsonPath, "."), 1, JsonParse(jsonString).value, <<>>)

\* the path validated only when the secret parsed
extractJsonPathParseFirst(jsonString, jsonPath) ==
    IF ~JsonParse(jsonString).ok \/ validateJsonPath(jsonPath) = NoError
    THEN ExtractParsed(jsonString, jsonPath)
    ELSE [threw |-> TRUE, error |-> validateJsonPath(jsonPath), value |-> Undefined]

extractJsonPath(jsonString, jsonPath) ==
    IF validateJsonPath(jsonPath) # NoError
    THEN [threw |-> TRUE, error |-> validateJsonPath(jsonPath), value |-> Undefined]
    ELSE ExtractParsed(jsonString, jsonPath)

-----------------------------------------------------------------------------
(* SpecExtract: extractJsonPath called with a raw secret and a path *)

RawSecrets ==
    {Raw_doc, Raw_falsy, Raw_array, Raw_number, Raw_null, Raw_string, Raw_false,
     Raw_emptyObject, Raw_docTwin, Raw_docReordered, Raw_truthy, Raw_zero,
     Raw_emptyString, Raw_true, Raw_plain, Raw_empty, Raw_unquoted}

JsonPaths ==
    {<<"a">>, <<"a",".","b">>, <<"c">>, <<"n">>, <<"l">>, <<"l",".","0">>,
     <<"a",".","b",".","x">>, <<"c",".","x">>, <<"n",".","x">>, <<"x">>,
     <<"a",".","x">>, <<"0">>, <<"t">>, <<"f">>, <<"z">>, <<"e">>, <<"o">>, <<"s">>,
     <<"o",".","x">>, <<"z",".","x">>, <<"e",".","x">>, <<"f",".","x">>,
     Str_constructor, Str_toString, Str_proto,
     <<"a",".">> \o Str_constructor, Str_constructor \o <<".","x">>,
     Str_proto \o <<".">> \o Str_proto, Str_proto \o <<".","x">>,
     <<>>, <<".">>, <<".","a">>, <<"a",".">>, <<"a",".",".","b">>}

InitExtract ==
    /\ pc = "extract_new"
    /\ argv = <<>>
    /\ env = <<>>
    /\ world = <<>>
    /\ vaultConfig = NoConfig
    /\ envVars = <<>>
    /\ command = <<>>
    /\ vault = NewPlugin(Undefined)
    /\ idx = 0
    /\ result = Undefined
    /\ secretValues = Undefined
    /\ \E jsonString \in RawSecrets, jsonPath \in JsonPaths :
          request = [NoRequest EXCEPT !.value = jsonString, !.path = jsonPath]
    /\ getSecretLog = <<>>
    /\ error = NoError
    /\ exitCode = NotExited
    /\ spawned = NotSpawned
    /\ calls = 0
    /\ registry = <<>>
    /\ instances = <<>>

\* extractJsonPath(jsonString, jsonPath) returns a string or throws
ExtractCall ==
    /\ pc = "extract_new"
    /\ LET r == extractJsonPath(request.value, request.path)
       IN /\ pc' = IF r.threw THEN "extract_threw" ELSE "extract_returned"
          /\ error' = r.error
          /\ result' = r.value
    /\ UNCHANGED <<argv, env, world, vaultConfig, envVars, command, vault, idx,
                   secretValues, request, getSecretLog, exitCode, spawned, calls,
                   registry,
                   instances>>

NextExtract == ExtractCall

SpecExtract == InitExtract /\ [][NextExtract]_vars

-----------------------------------------------------------------------------
(* Properties of extractJsonPath, checked under SpecExtract *)

Extracted == pc \in {"extract_returned", "extract_threw"}

\* non-empty, no dot at either end, no two dots in a row
WellFormedPath(jsonPath) ==
    /\ Len(jsonPath) > 0
    /\ jsonPath[1] # "."
    /\ jsonPath[Len(jsonPath)] # "."
    /\ \A i \in 1..(Len(jsonPath) - 1) : ~(jsonPath[i] = "." /\ jsonPath[i + 1] = ".")

\* the raw secrets that are JSON texts, and the document each of them is
JsonSecrets ==
    {Raw_doc, Raw_falsy, Raw_array, Raw_number, Raw_null, Raw_string, Raw_false,
     Raw_emptyObject, Raw_docTwin, Raw_docReordered, Raw_truthy, Raw_zero,
     Raw_emptyString, Raw_true}
Document == JsonParse(request.value).value
PathKeys == Split(request.path, ".")
Prefix(k) == SubSeq(PathKeys, 1, k)

\* the value a sequence of keys leads to through own keys of JSON objects
Absent == [kind |-> "absent", v |-> <<>>]
RECURSIVE OwnValueAt(_, _)
OwnValueAt(value, keys) ==
    IF keys = <<>> THEN value
    ELSE IF value.kind # "object" \/ ~HasOwn(value.v, Head(keys)) THEN Absent
    ELSE OwnValueAt(PropGet(value.v, Head(keys)), Tail(keys))

\* the call is one a JSON document is traversed in
Traversed ==
    /\ Extracted
    /\ WellFormedPath(request.path)
    /\ request.value \in JsonSecrets
    /\ Document.kind = "object"

Scalars == {"string", "number", "boolean"}
ScalarText(value) ==
    IF value.kind = "string" THEN value.v
    ELSE IF value.kind = "number" THEN NumberToString(value.v)
    ELSE BooleanToString(value.v)

\* C15: a result is returned only for a string, number or boolean at the
\* path, and it is that string or the text of that number or boolean; null,
\* an array and an object at the path fail, each with its own error
C15_ScalarResults ==
    /\ pc = "extract_returned" =>
          /\ Traversed
          /\ OwnValueAt(Document, PathKeys).kind \in Scalars
          /\ result = ScalarText(OwnValueAt(Document, PathKeys))
    /\ (Traversed /\ OwnValueAt(Document, PathKeys).kind \in Scalars)
          => pc = "extract_returned"
    /\ (Traversed /\ OwnValueAt(Document, PathKeys).kind = "null")
          => (pc = "extract_threw" /\ error = Err("ValueIsNull", request.path))
    /\ (Traversed /\ OwnValueAt(Document, PathKeys).kind = "array")
          => (pc = "extract_threw" /\ error = Err("ValueIsArray", request.path))
    /\ (Traversed /\ OwnValueAt(Document, PathKeys).kind = "object")
          => (pc = "extract_threw" /\ error = Err("ValueIsObject", request.path))

\* the number 7 at a.b returned as the text "7"
C15_Witness ==
    /\ pc = "extract_returned"
    /\ request.value = Raw_doc
    /\ request.path = <<"a",".","b">>
    /\ result = <<"7">>

\* the keys of an object as the error lists them
KeyListing(value) ==
    IF Len(value.v) = 0 THEN Str_none ELSE Join(KeysOf(value.v), <<",", " ">>)
PrefixText(k) == IF k = 0 THEN Str_topLevel ELSE Join(Prefix(k), <<".">>)

\* C16 as claimed: a segment that is not an own key of the object reached,
\* names inherited from Object.prototype included, fails with the
\* key-not-found error naming the segment, the prefix and the own keys
C16_MissingKeyReported ==
    Traversed =>
        \A k \in 1..Len(PathKeys) :
            (/\ OwnValueAt(Document, Prefix(k - 1)).kind = "object"
             /\ ~HasOwn(OwnValueAt(Document, Prefix(k - 1)).v, PathKeys[k]))
            => /\ pc = "extract_threw"
               /\ error = Err("KeyNotFound",
                              <<request.path, PathKeys[k], PrefixText(k - 1),
                                KeyListing(OwnValueAt(Document, Prefix(k - 1)))>>)

NotJsonSecrets == {Raw_plain, Raw_empty, Raw_unquoted}

\* C17: for a raw secret that is not JSON and a well-formed path the call
\* fails with the not-valid-JSON error, which carries the path
C17_NotJsonError ==
    (Extracted /\ WellFormedPath(request.path) /\ request.value \in NotJsonSecrets)
        => (pc = "extract_threw" /\ error = Err("NotValidJson", request.path))

\* a plain text asked for a.b
C17_Witness ==
    /\ pc = "extract_threw"
    /\ request.value = Raw_plain
    /\ request.path = <<"a",".","b">>
    /\ error.kind = "NotValidJson"

\* array, null, or the typeof of a primitive
KindName(value) == IF value.kind \in {"array", "null"} THEN value.kind ELSE TypeOf(value)
NotObjects == {"array", "null", "string", "number", "boolean"}

\* C18: a root that is an array, null or a primitive fails with its kind; an
\* array, null or primitive reached after a proper prefix of the path fails
\* with that prefix, its type and the segment that was to be read from it;
\* nothing is returned from below an array
C18_OnlyPlainObjects ==
    /\ (Extracted /\ WellFormedPath(request.path) /\ request.value \in JsonSecrets
          /\ Document.kind \in NotObjects)
          => /\ pc = "extract_threw"
             /\ error = Err("RootNotAnObject", <<request.path, KindName(Document)>>)
    /\ Traversed =>
          \A k \in 1..(Len(PathKeys) - 1) :
              OwnValueAt(Document, Prefix(k)).kind \in NotObjects
              => /\ pc = "extract_threw"
                 /\ error = Err("NotAPlainObject",
                                <<request.path, PrefixText(k),
                                  KindName(OwnValueAt(Document, Prefix(k))),
                                  PathKeys[k + 1]>>)
    /\ pc = "extract_returned" =>
          /\ Document.kind = "object"
          /\ \A k \in 1..(Len(PathKeys) - 1) :
                OwnValueAt(Document, Prefix(k)).kind = "object"

\* element 0 of the array at l asked for
C18_Witness ==
    /\ pc = "extract_threw"
    /\ request.value = Raw_doc
    /\ request.path = <<"l",".","0">>
    /\ error = Err("NotAPlainObject", <<request.path, <<"l">>, "array", <<"0">>>>)

PathFormatErrors == {"JsonPathEmpty", "JsonPathDotAtEnd", "JsonPathEmptySegment"}

\* C19: a path that is empty, starts or ends with a dot or has an empty
\* segment fails with a path-format error whatever the raw secret is, JSON or
\* not; no other path fails with a path-format error
C19_PathValidatedFirst ==
    Extracted =>
        /\ ~WellFormedPath(request.path)
              => (pc = "extract_threw" /\ error.kind \in PathFormatErrors)
        /\ WellFormedPath(request.path) => error.kind \notin PathFormatErrors

\* a path with an empty segment rejected for a raw secret that is not JSON
C19_Witness ==
    /\ pc = "extract_threw"
    /\ request.value = Raw_plain
    /\ request.path = <<"a",".",".","b">>
    /\ error.kind = "JsonPathEmptySegment"

-----------------------------------------------------------------------------
(* cli: the splitter of getSecrets *)

\* the split at the first '#'
SplitAtFirstHash(secretIdWithPath) ==
    LET firstHashIndex == IndexOf(secretIdWithPath, "#")
    IN [actualSecretId |-> IF firstHashIndex = -1 THEN secretIdWithPath
                           ELSE Substring(secretIdWithPath, 0, firstHashIndex),
        jsonPath |-> IF firstHashIndex = -1 THEN Undefined
                     ELSE SubstringFrom(secretIdWithPath, firstHashIndex + 1)]

\* actualSecretId and jsonPath of a token: the split at the last '#'
SplitSecretId(secretIdWithPath) ==
    LET lastHashIndex == LastIndexOf(secretIdWithPath, "#")
    IN [actualSecretId |-> IF lastHashIndex = -1 THEN secretIdWithPath
                           ELSE Substring(secretIdWithPath, 0, lastHashIndex),
        jsonPath |-> IF lastHashIndex = -1 THEN Undefined
                     ELSE SubstringFrom(secretIdWithPath, lastHashIndex + 1)]

\* no check of the path after '#'
JsonPathIsEmptyNever(jsonPath) == FALSE

\* jsonPath !== undefined && jsonPath.length === 0
JsonPathIsEmpty(jsonPath) == jsonPath # Undefined /\ Len(jsonPath) = 0

-----------------------------------------------------------------------------
(* AWSVaultPlugin and DefaultVaultRegistry *)

\* AWSVaultPlugin.initialize
AwsInitialize(config, w) ==
    IF ~w.ctorOk
    THEN [threw |-> TRUE, error |-> Err("ClientInitError", <<>>),
          resolvedProjectId |-> Undefined, client |-> FALSE]
    ELSE [threw |-> FALSE, error |-> NoError,
          resolvedProjectId |-> Undefined, client |-> TRUE]

\* AWSVaultPlugin.getSecret up to client.send: the secret id goes unchanged
AwsNormalize(client, secretId) ==
    IF ~client
    THEN [threw |-> TRUE, error |-> Err("NotInitialized", Str_aws),
          name |-> secretId, resolvedProjectId |-> Undefined]
    ELSE [threw |-> FALSE, error |-> NoError, name |-> secretId,
          resolvedProjectId |-> Undefined]

\* AWSVaultPlugin.getSecret after client.send settled: an empty SecretString
\* counts as no value, every error is thrown again as it came
AwsResponse(resp) ==
    IF resp.ok /\ Truthy(resp.data)
    THEN [threw |-> FALSE, error |-> NoError, value |-> resp.data]
    ELSE IF resp.ok
    THEN [threw |-> TRUE, error |-> Err("Rethrown", Msg_empty), value |-> Undefined]
    ELSE [threw |-> TRUE, error |-> Err("Rethrown", resp.message), value |-> Undefined]

\* the GCPVaultConfig that the params object of a VaultConfig is read as:
\* a params value is a string, which has no project_id property
GcpConfigOf(params) ==
    [projectId |-> PropGet(params, Str_projectId),
     keyFilename |-> PropGet(params, Str_keyFilename),
     credentials |-> [present |-> Truthy(PropGet(params, Str_credentials)),
                      project_id |-> Undefined]]

\* DefaultVaultRegistry.register
registerPlugin(reg, plugin) == PropSet(reg, plugin.name, plugin)

\* DefaultVaultRegistry.createVault: the error or the new instance
createVault(reg, config, w) ==
    IF ~HasOwn(reg, config.type)
    THEN [threw |-> TRUE,
          error |-> Err("PluginNotFound", <<config.type, Join(KeysOf(reg), <<",", " ">>)>>),
          instance |-> Undefined]
    ELSE LET plugin == PropGet(reg, config.type)
             r == IF plugin.name = Str_gcp
                  THEN GcpInitialize(GcpConfigOf(config.params), w)
                  ELSE AwsInitialize(config.params, w)
         IN [threw |-> r.threw, error |-> r.error,
             instance |-> [plugin EXCEPT !.client = r.client,
                                         !.resolvedProjectId = r.resolvedProjectId,
                                         !.config = config.params]]

-----------------------------------------------------------------------------
(* Spec: one run of the CLI, from main to the exit of the process *)

\* the command line: --vault-* arguments, KEY=VALUE arguments, the command
Arg_vaultTypeFoo == Str_vaultTypeEq \o <<"f","o","o">>
VaultArgLists ==
    {<<>>, <<Arg_vaultTypeAws>>, <<Arg_vaultTypeGcp>>,
     <<Arg_vaultTypeGcp, Arg_vaultProjectId>>, <<Arg_vaultTypeFoo>>}

EnvVarNames == {<<"A">>, <<"1">>}
SecretTokens ==
    {<<"s">>, <<"s","#","c">>, <<"s","#">>, <<"m","#","s","#","a",".","b">>,
     FullId(<<"q">>, <<"s">>), <<"s","#","a",".",".","b">>, <<"s","=","t">>}
\* KEY=VALUE arguments, and one argument without "="
EnvVarArgTokens ==
    {k \o <<"=">> \o t : k \in EnvVarNames, t \in SecretTokens} \cup {<<"B">>}
EnvVarArgLists ==
    UNION {[1..n -> EnvVarArgTokens] : n \in 0..MaxEntries}
Arg_vaultAfterDelimiter == Str_vaultDash \o <<"k","=","v">>
CommandLists ==
    {<<Str_dashDash, <<"c">>, <<"x">>>>, <<Str_dashDash>>, <<<<"c">>>>, <<>>,
     <<Str_dashDash, <<"c">>, Arg_vaultAfterDelimiter, Str_dashDash>>}

Argvs == {v \o e \o c : v \in VaultArgLists, e \in EnvVarArgLists, c \in CommandLists}

ProcessEnvs == {<<>>, <<<<Str_VAULT_TYPE, Str_gcp>>, <<Str_VAULT_PROJECTID, Project_p>>>>}

NoKeyFiles == (KeyPath :> UnreadableFile) @@ (GacPath :> UnreadableFile)
CliWorlds ==
    {[gac |-> Undefined, files |-> NoKeyFiles,
      gcloud |-> [ok |-> FALSE, out |-> <<>>], ctorOk |-> TRUE],
     [gac |-> Undefined, files |-> NoKeyFiles,
      gcloud |-> [ok |-> TRUE, out |-> <<"g","\n">>], ctorOk |-> TRUE],
     [gac |-> Undefined, files |-> NoKeyFiles,
      gcloud |-> [ok |-> FALSE, out |-> <<>>], ctorOk |-> FALSE]}

\* exit codes a child reports; NullCode is the null of a child ended by a signal
NullCode == -1
MaxExitCode == 2
ChildExitCodes == {NullCode} \cup (0..MaxExitCode)

CliResponses ==
    SdkResponses \cup {[ok |-> TRUE, data |-> Raw_doc, message |-> <<>>]}

Init ==
    /\ pc = "main_start"
    /\ argv \in Argvs
    /\ env \in ProcessEnvs
    /\ world \in CliWorlds
    /\ vaultConfig = NoConfig
    /\ envVars = <<>>
    /\ command = <<>>
    /\ vault = NewPlugin(Undefined)
    /\ idx = 0
    /\ result = <<>>
    /\ secretValues = Undefined
    /\ request = NoRequest
    /\ getSecretLog = <<>>
    /\ error = NoError
    /\ exitCode = NotExited
    /\ spawned = NotSpawned
    /\ calls = 0
    /\ registry = <<>>
    /\ instances = <<>>

\* main: the plugins are registered and the vault configuration is read
MainGetVaultConfig ==
    /\ pc = "main_start"
    /\ registry' = registerPlugin(registerPlugin(registry, NewPlugin(Str_aws)),
                                  NewPlugin(Str_gcp))
    /\ LET r == getVaultConfig(argv, env)
       IN /\ pc' = IF r.threw THEN "main_catch" ELSE "main_parseCliArgs"
          /\ error' = r.error
          /\ vaultConfig' = r.config
    /\ UNCHANGED <<argv, env, world, envVars, command, vault, idx, result,
                   secretValues, request, getSecretLog, exitCode, spawned, calls,
                   instances>>

\* main without the check that a command is given
CommandMissingNever(commandWithArgs) == FALSE

\* commandWithArgs.length === 0
CommandMissing(commandWithArgs) == Len(commandWithArgs) = 0

\* main: removeVaultArgs, parseCliArgs and the check that a command is given
MainParseCliArgs ==
    /\ pc = "main_parseCliArgs"
    /\ LET r == parseCliArgs(removeVaultArgs(argv))
       IN /\ pc' = IF r.threw \/ CommandMissing(r.command) THEN "main_catch"
                   ELSE "main_createVault"
          /\ error' = IF r.threw THEN r.error
                      ELSE IF CommandMissing(r.command) THEN Err("NoCommand", <<>>)
                      ELSE NoError
          /\ envVars' = r.envVars
          /\ command' = r.command
    /\ UNCHANGED <<argv, env, world, vaultConfig, vault, idx, result,
                   secretValues, request, getSecretLog, exitCode, spawned, calls,
                   registry,
                   instances>>

\* main: await vaultRegistry.createVault(vaultConfig), then getSecrets starts
MainCreateVault ==
    /\ pc = "main_createVault"
    /\ LET r == createVault(registry, vaultConfig, world)
       IN /\ pc' = IF r.threw THEN "main_catch" ELSE "getSecrets_loop"
          /\ error' = r.error
          /\ vault' = IF r.threw THEN vault ELSE r.instance
    /\ idx' = 1
    /\ result' = <<>>
    /\ UNCHANGED <<argv, env, world, vaultConfig, envVars, command,
                   secretValues, request, getSecretLog, exitCode, spawned, calls,
                   registry,
                   instances>>

\* the catch block of getSecrets ignores the error and goes to the next entry
SwallowEntryError(i) == [pc |-> "getSecrets_loop", idx |-> i + 1]

\* the catch block of getSecrets: the error is logged and thrown again,
\* which ends the loop at entry i
RethrowEntryError(i) == [pc |-> "main_catch", idx |-> i]

\* the plugin's getSecret up to its await
VaultNormalize(v, secretId) ==
    IF v.name = Str_gcp
    THEN GcpNormalize(v.client, v.resolvedProjectId, secretId)
    ELSE [AwsNormalize(v.client, secretId) EXCEPT
             !.resolvedProjectId = v.resolvedProjectId]

\* the plugin's getSecret after the SDK call settled
VaultResponse(v, name, resp) ==
    IF v.name = Str_gcp THEN GcpResponse(name, resp) ELSE AwsResponse(resp)

\* jsonPath ? extractJsonPath(secretValue, jsonPath) : secretValue
EntryValue(secretValue, jsonPath) ==
    IF Truthy(jsonPath) THEN extractJsonPath(secretValue, jsonPath)
    ELSE [threw |-> FALSE, error |-> NoError, value |-> secretValue]

\* getSecrets: entry idx of Object.entries(envVars) is split and
\* vault.getSecret is called for it
GetSecretsEntry ==
    /\ pc = "getSecrets_loop"
    /\ idx <= Len(ObjectEntries(envVars))
    /\ LET key == ObjectEntries(envVars)[idx][1]
           secretIdWithPath == ObjectEntries(envVars)[idx][2]
           sp == SplitSecretId(secretIdWithPath)
           n == VaultNormalize(vault, sp.actualSecretId)
           req == [key |-> key, token |-> secretIdWithPath,
                   id |-> sp.actualSecretId, path |-> sp.jsonPath,
                   name |-> n.name, value |-> Undefined]
       IN IF JsonPathIsEmpty(sp.jsonPath)
          THEN /\ error' = Err("EmptyJsonPath", <<key, secretIdWithPath>>)
               /\ pc' = RethrowEntryError(idx).pc
               /\ idx' = RethrowEntryError(idx).idx
               /\ UNCHANGED <<vault, request, getSecretLog>>
          ELSE /\ getSecretLog' = Append(getSecretLog, req)
               /\ vault' = [vault EXCEPT !.resolvedProjectId = n.resolvedProjectId]
               /\ error' = n.error
               /\ IF n.threw
                  THEN /\ pc' = RethrowEntryError(idx).pc
                       /\ idx' = RethrowEntryError(idx).idx
                       /\ UNCHANGED request
                  ELSE /\ pc' = "getSecrets_await"
                       /\ request' = req
                       /\ UNCHANGED idx
    /\ UNCHANGED <<argv, env, world, vaultConfig, envVars, command, result,
                   secretValues, exitCode, spawned, calls, registry,
                   instances>>

\* getSecrets: the SDK call settles, vault.getSecret returns or throws, and
\* the value (extracted if a path was given) is stored under the key
GetSecretsSettles(resp) ==
    /\ pc = "getSecrets_await"
    /\ LET r == VaultResponse(vault, request.name, resp)
           e == EntryValue(r.value, request.path)
           failed == r.threw \/ e.threw
       IN /\ error' = IF r.threw THEN r.error ELSE e.error
          /\ pc' = IF failed THEN RethrowEntryError(idx).pc ELSE "getSecrets_loop"
          /\ idx' = IF failed THEN RethrowEntryError(idx).idx ELSE idx + 1
          /\ result' = IF failed THEN result
                       ELSE PropSet(result, request.key, e.value)
          /\ getSecretLog' = [getSecretLog EXCEPT ![Len(getSecretLog)].value = r.value]
    /\ request' = NoRequest
    /\ UNCHANGED <<argv, env, world, vaultConfig, envVars, command, vault,
                   secretValues, exitCode, spawned, calls, registry,
                   instances>>

\* { ...process.env, ...env }
RECURSIVE MergeProps(_, _)
MergeProps(a, b) ==
    IF b = <<>> THEN a
    ELSE MergeProps(PropSet(a, Head(b)[1], Head(b)[2]), Tail(b))

\* getSecrets returns its result and main calls runMcpServer, which spawns
\* the child
MainRunMcpServer ==
    /\ pc = "getSecrets_loop"
    /\ idx > Len(ObjectEntries(envVars))
    /\ secretValues' = result
    /\ spawned' = [command |-> Elem(command, 1),
                   args |-> IF command = <<>> THEN <<>> ELSE Tail(command),
                   env |-> MergeProps(env, result),
                   child |-> "running", code |-> NullCode]
    /\ pc' = "child_running"
    /\ UNCHANGED <<argv, env, world, vaultConfig, envVars, command, vault, idx,
                   result, request, getSecretLog, error, exitCode, calls, registry,
                   instances>>

\* process.exit() without a status: the process ends with process.exitCode,
\* which nothing has set
MainCatchExitDefault == IF exitCode = NotExited THEN 0 ELSE exitCode

\* the status the catch block of main exits with
MainCatchExitCode == 1

\* main: the catch block prints the error and exits
MainCatch ==
    /\ pc = "main_catch"
    /\ exitCode' = MainCatchExitCode
    /\ pc' = "exited"
    /\ UNCHANGED <<argv, env, world, vaultConfig, envVars, command, vault, idx,
                   result, secretValues, request, getSecretLog, error, spawned,
                   calls, registry,
                   instances>>

\* the status is 1 for every code but 0
ExitStatusFlag(code) == IF code = 0 THEN 0 ELSE 1

\* code || 0: the null of a child ended by a signal becomes 0
ExitStatusOf(code) == IF code = NullCode \/ code = 0 THEN 0 ELSE code

\* runMcpServer: the "exit" handler, process.exit(code || 0)
ChildExit(code) ==
    /\ pc = "child_running"
    /\ exitCode' = ExitStatusOf(code)
    /\ spawned' = [spawned EXCEPT !.child = IF code = NullCode THEN "signaled"
                                           ELSE "exited",
                                  !.code = code]
    /\ pc' = "exited"
    /\ UNCHANGED <<argv, env, world, vaultConfig, envVars, command, vault, idx,
                   result, secretValues, request, getSecretLog, error,
                   calls, registry, instances>>

\* runMcpServer: the "error" handler, process.exit(1)
ChildError ==
    /\ pc = "child_running"
    /\ exitCode' = 1
    /\ spawned' = [spawned EXCEPT !.child = "failed"]
    /\ pc' = "exited"
    /\ UNCHANGED <<argv, env, world, vaultConfig, envVars, command, vault, idx,
                   result, secretValues, request, getSecretLog, error,
                   calls, registry, instances>>

Next ==
    \/ MainGetVaultConfig
    \/ MainParseCliArgs
    \/ MainCreateVault
    \/ GetSecretsEntry
    \/ \E resp \in CliResponses : GetSecretsSettles(resp)
    \/ MainRunMcpServer
    \/ MainCatch
    \/ \E code \in ChildExitCodes : ChildExit(code)
    \/ ChildError

Spec == Init /\ [][Next]_vars

-----------------------------------------------------------------------------
(* Properties of the pipeline, checked under Spec *)

Entries == ObjectEntries(envVars)

\* an entry of getSecrets has failed: an error is pending and the vault exists
EntryFailed == error # NoError /\ vault.client

\* C1: once resolving entry idx has failed, vault.getSecret has been called
\* for entries up to idx only and is never called again, and getSecrets
\* returns no mapping (nothing is spawned with a partial one)
C1_FailFast ==
    [][EntryFailed =>
         /\ \A j \in 1..Len(getSecretLog) :
               \E i \in 1..idx :
                  Entries[i] = <<getSecretLog[j].key, getSecretLog[j].token>>
         /\ secretValues = Undefined /\ secretValues' = Undefined
         /\ getSecretLog' = getSecretLog
         /\ spawned' = NotSpawned
         /\ request' = NoRequest
      ]_vars

\* the first of two entries failed after its fetch and the run has ended
C1_Witness ==
    /\ pc = "exited"
    /\ EntryFailed
    /\ idx = 1
    /\ Len(Entries) = 2
    /\ Len(getSecretLog) = 1

\* C2: the child is spawned only when every requested secret is resolved;
\* a run in which something failed never spawns and exits non-zero
C2_SpawnOnlyAfterAllResolved ==
    /\ spawned # NotSpawned =>
          /\ error = NoError
          /\ vault.client
          /\ secretValues # Undefined
          /\ \A i \in 1..Len(Entries) : HasOwn(secretValues, Entries[i][1])
    /\ error # NoError => spawned = NotSpawned
    /\ (pc = "exited" /\ error # NoError) => (exitCode # NotExited /\ exitCode # 0)

\* the second secret failed after the first was resolved, and the run ended
C2_Witness ==
    /\ pc = "exited"
    /\ error # NoError
    /\ idx = 2
    /\ Len(result) = 1
    /\ exitCode = 1

\* C3 as claimed: vault.getSecret is called for the entries in the insertion
\* order of the env-var mapping, once per entry
C3_FetchesInInsertionOrder ==
    /\ Len(getSecretLog) <= Len(envVars)
    /\ \A j \in 1..Len(getSecretLog) :
          envVars[j] = <<getSecretLog[j].key, getSecretLog[j].token>>

HasHash(token) == \E i \in 1..Len(token) : token[i] = "#"

\* C4: for a token with '#' the identifier given to vault.getSecret is the
\* text before the last '#' and the path the text after it; for a token
\* without '#' the identifier is the token, there is no path, and the value
\* stored is the secret as the vault returned it
C4_SplitAtLastHash ==
    \A j \in 1..Len(getSecretLog) :
        LET call == getSecretLog[j]
        IN /\ HasHash(call.token) =>
                 /\ call.path # Undefined
                 /\ call.token = call.id \o <<"#">> \o call.path
                 /\ ~HasHash(call.path)
           /\ ~HasHash(call.token) =>
                 /\ call.id = call.token
                 /\ call.path = Undefined
                 /\ (HasOwn(result, call.key) /\ call.value # Undefined)
                       => PropGet(result, call.key) = call.value

\* my#secret#a.b style: identifier m#s, path a.b
C4_Witness ==
    \E j \in 1..Len(getSecretLog) :
        /\ getSecretLog[j].token = <<"m","#","s","#","a",".","b">>
        /\ getSecretLog[j].id = <<"m","#","s">>
        /\ getSecretLog[j].path = <<"a",".","b">>

\* C5: a token that ends with '#' fails with the empty-path format error and
\* vault.getSecret is not called for it
C5_EmptyPathRejected ==
    /\ \A j \in 1..Len(getSecretLog) : ~EndsWith(getSecretLog[j].token, <<"#">>)
    /\ (/\ vault.client
        /\ pc \in {"getSecrets_await", "main_catch", "exited"}
        /\ spawned = NotSpawned
        /\ idx \in 1..Len(Entries)
        /\ EndsWith(Entries[idx][2], <<"#">>))
          => (pc # "getSecrets_await" /\ error.kind = "EmptyJsonPath")

\* the second entry ended with '#': rejected, one fetch (for the first) only
C5_Witness ==
    /\ pc = "main_catch"
    /\ error.kind = "EmptyJsonPath"
    /\ idx = 2
    /\ Entries[2][2] = <<"s","#">>
    /\ Len(getSecretLog) = 1

\* C20 as claimed: vault.getSecret is called only for tokens whose JSON path
\* is absent or well formed
C20_FetchOnlyWellFormedPath ==
    \A j \in 1..Len(getSecretLog) :
        \/ ~HasHash(getSecretLog[j].token)
        \/ WellFormedPath(getSecretLog[j].path)

\* C21: while the child runs the wrapper runs; when the child exits with a
\* code the wrapper exits with that code; a run that fails before the spawn
\* exits with a status that is not 0
C21_ExitMirrorsChild ==
    /\ (spawned # NotSpawned /\ spawned.child = "running") <=> pc = "child_running"
    /\ (spawned # NotSpawned /\ spawned.child = "exited")
          => (pc = "exited" /\ exitCode = spawned.code)
    /\ (pc = "exited" /\ spawned = NotSpawned)
          => (exitCode # 0 /\ exitCode # NotExited)

\* the child has exited with the largest code of the model
C21_Witness ==
    /\ pc = "exited"
    /\ spawned # NotSpawned
    /\ spawned.child = "exited"
    /\ spawned.code = MaxExitCode
    /\ exitCode = MaxExitCode

\* C27 as claimed: the wrapper exits with status 0 only if the child exited
\* with code 0
C27_ZeroOnlyIfChildZero ==
    (pc = "exited" /\ exitCode = 0)
        => (spawned # NotSpawned /\ spawned.child = "exited" /\ spawned.code = 0)

\* the position of the first "--" of the command line (0 if there is none)
\* and the arguments before and after it
DelimiterAt ==
    IF \E i \in 1..Len(argv) : argv[i] = Str_dashDash
    THEN CHOOSE i \in 1..Len(argv) :
            argv[i] = Str_dashDash /\ \A j \in 1..(i - 1) : argv[j] # Str_dashDash
    ELSE 0
ArgsBeforeDelimiter == SubSeq(argv, 1, DelimiterAt - 1)
ArgsAfterDelimiter == SubSeq(argv, DelimiterAt + 1, Len(argv))

\* C22 as claimed: the spawned command and its arguments are the arguments
\* after the first "--", all of them, unchanged and in order
C22_CommandArgsUnchanged ==
    (spawned # NotSpawned /\ DelimiterAt > 0)
        => <<spawned.command>> \o spawned.args = ArgsAfterDelimiter

\* key and value of a KEY=VALUE argument: the texts before and after the
\* first "="
KeyOfArg(arg) == SubSeq(arg, 1, IndexOf(arg, "="))
ValueOfArg(arg) == SubSeq(arg, IndexOf(arg, "=") + 2, Len(arg))
IsKeyValueArg(arg) == ~IsVaultArg(arg) /\ IndexOf(arg, "=") # -1

\* the arguments were parsed without error
ArgsParsed ==
    /\ pc \notin {"main_start", "main_parseCliArgs"}
    /\ error.kind \notin {"NoVaultConfig", "InvalidFormat"}

\* C26 as claimed: every KEY=VALUE argument before "--" maps KEY to the whole
\* text after its first "=" (the last argument for a key counts), and the
\* tokens vault.getSecret is called for are such whole texts
C26_ValueAfterFirstEquals ==
    (ArgsParsed /\ DelimiterAt > 0) =>
        /\ \A i \in 1..Len(ArgsBeforeDelimiter) :
              (/\ IsKeyValueArg(argv[i])
               /\ \A j \in (i + 1)..Len(ArgsBeforeDelimiter) :
                     ~(IsKeyValueArg(argv[j]) /\ KeyOfArg(argv[j]) = KeyOfArg(argv[i])))
              => PropGet(envVars, KeyOfArg(argv[i])) = ValueOfArg(argv[i])
        /\ \A n \in 1..Len(getSecretLog) :
              \E i \in 1..Len(ArgsBeforeDelimiter) :
                  /\ IsKeyValueArg(argv[i])
                  /\ getSecretLog[n].token = ValueOfArg(argv[i])

\* nothing after "--", or no arguments at all
NoCommandGiven == argv = <<>> \/ (DelimiterAt > 0 /\ DelimiterAt = Len(argv))
MainFailed == pc \in {"main_catch", "exited"} /\ spawned = NotSpawned

\* the steps of main in their order: the vault is initialized only after the
\* configuration is read and a command is found, secrets are fetched only
\* from an initialized vault, the child is spawned only after that; without
\* a command no vault is initialized and no secret is fetched
MainStepsInOrder ==
    /\ vault.client => (vaultConfig # NoConfig /\ Len(command) > 0)
    /\ getSecretLog # <<>> => vault.client
    /\ spawned # NotSpawned => vault.client
    /\ NoCommandGiven
          => (~vault.client /\ getSecretLog = <<>> /\ spawned = NotSpawned)

\* C28 as claimed: the steps of main occur in their order, and a run without
\* a command fails with the no-command error
C28_NoCommandError ==
    /\ MainStepsInOrder
    /\ (MainFailed /\ NoCommandGiven) => error.kind = "NoCommand"

\* a vault configuration is given, and every argument before "--" that is
\* not a --vault- argument has the form KEY=VALUE
ConfigGiven ==
    \/ \E i \in 1..Len(argv) : IsVaultTypeArg(argv[i])
    \/ Truthy(PropGet(env, Str_VAULT_TYPE))
ArgsKeyValue ==
    \A i \in 1..Len(ArgsBeforeDelimiter) : IsVaultArg(argv[i]) \/ IsKeyValueArg(argv[i])

\* C28 amended: the steps of main occur in their order; a run without a
\* command fails before any vault is initialized, with the no-configuration
\* error if no vault configuration is given, else with the invalid-format
\* error if an argument before "--" is not KEY=VALUE, else with the
\* no-command error
C28_NoCommandFailsInOrder ==
    /\ MainStepsInOrder
    /\ (MainFailed /\ NoCommandGiven) =>
          error.kind = IF ~ConfigGiven THEN "NoVaultConfig"
                       ELSE IF ~ArgsKeyValue THEN "InvalidFormat"
                       ELSE "NoCommand"

\* a run with a vault type and nothing after "--" has failed for want of a
\* command
C28_Witness ==
    /\ pc = "main_catch"
    /\ argv = <<Arg_vaultTypeGcp, <<"A","=","s">>, Str_dashDash>>
    /\ error.kind = "NoCommand"
    /\ ~vault.client

\* the vault was created from VAULT_TYPE=gcp and VAULT_PROJECTID=p of the
\* environment, no --vault-type argument being given, and no secret has been
\* asked for yet
CreatedFromEnv ==
    /\ pc = "getSecrets_loop"
    /\ getSecretLog = <<>>
    /\ ~\E i \in 1..Len(argv) : IsVaultTypeArg(argv[i])
    /\ PropGet(env, Str_VAULT_TYPE) = Str_gcp
    /\ PropGet(env, Str_VAULT_PROJECTID) = Project_p

\* the instance the same registry creates for --vault-type=gcp
\* --vault-projectId=p
CreatedFromFlags ==
    createVault(registry,
                getVaultConfig(<<Arg_vaultTypeGcp, Arg_vaultProjectId>>, <<>>).config,
                world).instance

\* C23 as claimed: the plugin created from the environment variables holds
\* the project id the plugin created from the flags holds, which is p
C23_EnvSameAsFlags ==
    CreatedFromEnv =>
        /\ vault.resolvedProjectId = CreatedFromFlags.resolvedProjectId
        /\ vault.resolvedProjectId = Project_p

\* the texts of the failing reference that the message of an error carries:
\* the key and the token in the empty-path error of getSecrets, the path in
\* the errors of extractJsonPath, the secret id in the format error of the
\* GCP plugin, none in the other errors of the plugins and of the SDK
ErrorTexts(e) ==
    IF e.kind = "EmptyJsonPath" THEN {e.detail[1], e.detail[2]}
    ELSE IF e.kind \in {"KeyNotFound", "NotAPlainObject", "RootNotAnObject"}
    THEN {e.detail[1]}
    ELSE IF e.kind \in {"NotValidJson", "ValueIsNull", "ValueIsArray", "ValueIsObject",
                        "JsonPathDotAtEnd", "JsonPathEmptySegment",
                        "InvalidSecretIdFormat"}
    THEN {e.detail}
    ELSE {}

\* C25 as claimed: the error getSecrets fails with names the env var or the
\* token of the failing entry, and its path if it has one
C25_ErrorsCarryContext ==
    (pc = "main_catch" /\ EntryFailed) =>
        /\ \/ Entries[idx][1] \in ErrorTexts(error)
           \/ Entries[idx][2] \in ErrorTexts(error)
        /\ (HasHash(Entries[idx][2]) /\ SplitSecretId(Entries[idx][2]).jsonPath # <<>>)
              => SplitSecretId(Entries[idx][2]).jsonPath \in ErrorTexts(error)

\* the keys of a JSON object, as a set
KeySet(value) == {value.v[i][1] : i \in 1..Len(value.v)}

\* two JSON values with the same keys at every level and the same value
\* types; with ordered, the keys also come in the same order
RECURSIVE SameStructure(_, _, _)
SameStructure(v, w, ordered) ==
    /\ v.kind = w.kind
    /\ v.kind = "object" =>
          /\ KeySet(v) = KeySet(w)
          /\ ordered => ObjectKeys(v) = ObjectKeys(w)
          /\ \A i \in 1..Len(v.v) :
                SameStructure(v.v[i][2], PropGet(w.v, v.v[i][1]), ordered)
    /\ v.kind = "array" =>
          /\ Len(v.v) = Len(w.v)
          /\ \A i \in 1..Len(v.v) : SameStructure(v.v[i], w.v[i], ordered)

\* the call of the state and the call with the other secret and the same
\* path end alike: both return, or both throw the same error
SameOutcome(other) ==
    /\ extractJsonPath(other, request.path).threw = (pc = "extract_threw")
    /\ extractJsonPath(other, request.path).error = error

\* C29: for a JSON secret and any path, every JSON secret with the same keys
\* at every level and the same value types gives the same outcome: both calls
\* return, or both throw the identical error
C29_SameStructureSameMessage ==
    (Extracted /\ request.value \in JsonSecrets) =>
        \A other \in JsonSecrets :
            SameStructure(Document, JsonParse(other).value, FALSE)
            => SameOutcome(other)

\* C29 amended: the same, for secrets whose keys also come in the same order
\* at every level
C29_SameOrderedStructureSameMessage ==
    (Extracted /\ request.value \in JsonSecrets) =>
        \A other \in JsonSecrets :
            SameStructure(Document, JsonParse(other).value, TRUE)
            => SameOutcome(other)

\* the document and its twin with other scalars both fail at the string
\* under "c" with the same error
C29_Witness ==
    /\ pc = "extract_threw"
    /\ request.value = Raw_doc
    /\ request.path = <<"c",".","x">>
    /\ SameStructure(Document, JsonParse(Raw_docTwin).value, TRUE)
    /\ error = extractJsonPath(Raw_docTwin, request.path).error
    /\ error.kind = "NotAPlainObject"

-----------------------------------------------------------------------------
(* SpecRegistry: a DefaultVaultRegistry driven through its interface:       *)
(* plugins are registered, vaults are created, and getSecret is called on   *)
(* the created instances and on the registered plugins                      *)

Str_region == <<"r","e","g","i","o","n">>
Str_foo == <<"f","o","o">>

RegistryPlugins == {NewPlugin(Str_aws), NewPlugin(Str_gcp)}

RegistryConfigs ==
    {[type |-> Str_aws, params |-> <<>>],
     [type |-> Str_aws, params |-> << <<Str_region, <<"r">>>> >>],
     [type |-> Str_gcp, params |-> <<>>],
     [type |-> Str_gcp, params |-> << <<Str_projectId, Project_p>> >>],
     [type |-> Str_foo, params |-> <<>>]}

\* no key file and no usable gcloud project; the client constructor works or not
RegistryWorlds ==
    {w \in GcpWorlds :
        /\ w.gac = Undefined
        /\ w.files[KeyPath] = UnreadableFile
        /\ w.files[GacPath] = UnreadableFile
        /\ ~w.gcloud.ok}

RegistrySecretIds == {<<"s">>, FullId(<<"q">>, <<"s">>), FullId(Project_p, <<"s">>)}

InitRegistry ==
    /\ pc = "reg_idle"
    /\ argv = <<>>
    /\ env = <<>>
    /\ world \in RegistryWorlds
    /\ vaultConfig = NoConfig
    /\ envVars = <<>>
    /\ command = <<>>
    /\ vault = NewPlugin(Undefined)
    /\ idx = 0
    /\ result = <<>>
    /\ secretValues = Undefined
    /\ request = NoRequest
    /\ getSecretLog = <<>>
    /\ error = NoError
    /\ exitCode = NotExited
    /\ spawned = NotSpawned
    /\ calls = 0
    /\ registry = <<>>
    /\ instances = <<>>

\* DefaultVaultRegistry.register(plugin)
RegRegister(plugin) ==
    /\ pc = "reg_idle"
    /\ registry' = registerPlugin(registry, plugin)
    /\ UNCHANGED <<pc, argv, env, world, vaultConfig, envVars, command, vault, idx,
                   result, secretValues, request, getSecretLog, error, exitCode,
                   spawned, calls, instances>>

\* initialize runs on the registered plugin itself
RegisteredAfterCreateInitialized(plugin, vaultInstance) == vaultInstance

\* the registered plugin after createVault: initialize ran on vaultInstance,
\* a new object that the plugin's fields were copied to
RegisteredAfterCreate(plugin, vaultInstance) == plugin

\* the client object that initialize constructs with new: no instance has it
NewClientRef(created) == Len(created) + 1

\* DefaultVaultRegistry.createVault(config) returns an instance or throws
RegCreateVault(config) ==
    /\ pc = "reg_idle"
    /\ Len(instances) < MaxCalls
    /\ LET r == createVault(registry, config, world)
       IN /\ pc' = IF r.threw THEN "reg_createFailed" ELSE "reg_created"
          /\ error' = r.error
          /\ instances' = IF r.threw THEN instances
                          ELSE Append(instances,
                                      [vault |-> r.instance,
                                       clientRef |-> NewClientRef(instances)])
          /\ registry' = IF HasOwn(registry, config.type)
                         THEN PropSet(registry, config.type,
                                      RegisteredAfterCreate(
                                          PropGet(registry, config.type), r.instance))
                         ELSE registry
    /\ vaultConfig' = config
    /\ UNCHANGED <<argv, env, world, envVars, command, vault, idx, result,
                   secretValues, request, getSecretLog, exitCode, spawned, calls>>

\* getSecret(secretId) on the i-th created instance, up to its await
RegInstanceGetSecret(i, secretId) ==
    /\ pc = "reg_idle"
    /\ calls < MaxCalls
    /\ i \in 1..Len(instances)
    /\ LET r == VaultNormalize(instances[i].vault, secretId)
       IN /\ pc' = IF r.threw THEN "reg_instanceThrew" ELSE "reg_instanceAccess"
          /\ error' = r.error
          /\ instances' = [instances EXCEPT
                              ![i].vault.resolvedProjectId = r.resolvedProjectId]
          /\ request' = [NoRequest EXCEPT !.id = secretId, !.name = r.name]
    /\ idx' = i
    /\ calls' = calls + 1
    /\ UNCHANGED <<argv, env, world, vaultConfig, envVars, command, vault, result,
                   secretValues, getSecretLog, exitCode, spawned, registry>>

\* getSecret(secretId) on the plugin registered under a name, registry.get(name)
RegPluginGetSecret(name, secretId) ==
    /\ pc = "reg_idle"
    /\ calls < MaxCalls
    /\ HasOwn(registry, name)
    /\ LET plugin == PropGet(registry, name)
           r == VaultNormalize(plugin, secretId)
       IN /\ pc' = IF r.threw THEN "reg_pluginThrew" ELSE "reg_pluginAccess"
          /\ error' = r.error
          /\ registry' = PropSet(registry, name,
                                 [plugin EXCEPT
                                     !.resolvedProjectId = r.resolvedProjectId])
          /\ request' = [NoRequest EXCEPT !.id = secretId, !.name = r.name]
    /\ vaultConfig' = [type |-> name, params |-> <<>>]
    /\ calls' = calls + 1
    /\ UNCHANGED <<argv, env, world, envVars, command, vault, idx, result,
                   secretValues, getSecretLog, exitCode, spawned, instances>>

\* the caller has the instance, the request or the error and goes on
RegCallerContinues ==
    /\ pc \in {"reg_created", "reg_createFailed", "reg_instanceThrew",
               "reg_instanceAccess", "reg_pluginThrew", "reg_pluginAccess"}
    /\ pc' = "reg_idle"
    /\ error' = NoError
    /\ request' = NoRequest
    /\ vaultConfig' = NoConfig
    /\ idx' = 0
    /\ UNCHANGED <<argv, env, world, envVars, command, vault, result,
                   secretValues, getSecretLog, exitCode, spawned, calls, registry,
                   instances>>

NextRegistry ==
    \/ \E plugin \in RegistryPlugins : RegRegister(plugin)
    \/ \E config \in RegistryConfigs : RegCreateVault(config)
    \/ \E i \in 1..MaxCalls, secretId \in RegistrySecretIds :
          RegInstanceGetSecret(i, secretId)
    \/ \E plugin \in RegistryPlugins, secretId \in RegistrySecretIds :
          RegPluginGetSecret(plugin.name, secretId)
    \/ RegCallerContinues

SpecRegistry == InitRegistry /\ [][NextRegistry]_vars

-----------------------------------------------------------------------------
(* Properties of the registry, checked under SpecRegistry *)

RegisteredNames == [i \in 1..Len(registry) |-> registry[i][1]]

\* every registered plugin is as its constructor left it, and getSecret on
\* one never gets past the not-initialized error
RegisteredUninitialized ==
    /\ \A i \in 1..Len(registry) :
          /\ ~registry[i][2].client
          /\ registry[i][2].resolvedProjectId = Undefined
          /\ registry[i][2].config = Undefined
    /\ pc # "reg_pluginAccess"
    /\ pc = "reg_pluginThrew" =>
          (error.kind = "NotInitialized" /\ error.detail = vaultConfig.type)

\* every instance has a client of its own
OwnClients ==
    /\ \A i \in 1..Len(instances) : instances[i].vault.client
    /\ \A i, j \in 1..Len(instances) :
          i # j => instances[i].clientRef # instances[j].clientRef

\* createVault for a type that is not registered fails and lists the names
UnregisteredFails ==
    (pc \in {"reg_created", "reg_createFailed"}
     /\ \A i \in 1..Len(registry) : registry[i][1] # vaultConfig.type)
    => /\ pc = "reg_createFailed"
       /\ error.kind = "PluginNotFound"
       /\ error.detail = <<vaultConfig.type, Join(RegisteredNames, <<",", " ">>)>>

\* a createVault that returns adds one initialized instance of the type
\* asked for, holding the parameters of this call, and changes no other; one
\* that throws changes none
CreateAddsOne ==
    /\ pc' = "reg_created" =>
          /\ Len(instances') = Len(instances) + 1
          /\ SubSeq(instances', 1, Len(instances)) = instances
          /\ instances'[Len(instances')].vault.name = vaultConfig'.type
          /\ instances'[Len(instances')].vault.config = vaultConfig'.params
          /\ instances'[Len(instances')].vault.client
    /\ pc' = "reg_createFailed" => instances' = instances

\* getSecret on an instance changes at most the resolved project id of that
\* instance, and no other instance
GetSecretOwnInstance ==
    pc' \in {"reg_instanceThrew", "reg_instanceAccess"} =>
        /\ Len(instances') = Len(instances)
        /\ \A j \in 1..Len(instances) :
              /\ j # idx' => instances'[j] = instances[j]
              /\ instances'[j].clientRef = instances[j].clientRef
              /\ instances'[j].vault.config = instances[j].vault.config
              /\ instances'[j].vault.client = instances[j].vault.client

\* C30: createVault returns a new initialized instance and leaves the
\* registered plugin as it was, not initialized, so getSecret on it fails
\* with the not-initialized error; instances have their own client, config
\* and resolved project id; createVault for a type that is not registered
\* fails with the error that lists the registered names and creates nothing
C30_FreshInstances ==
    /\ [](RegisteredUninitialized /\ OwnClients /\ UnregisteredFails)
    /\ [][CreateAddsOne /\ GetSecretOwnInstance]_vars

\* two instances of the gcp plugin, the first with the project id that a
\* getSecret call resolved, the second without one, the plugin as registered
C30_Witness ==
    /\ Len(instances) = 2
    /\ instances[1].vault.name = Str_gcp
    /\ instances[2].vault.name = Str_gcp
    /\ instances[1].vault.resolvedProjectId = <<"q">>
    /\ instances[2].vault.resolvedProjectId = Undefined
    /\ PropGet(registry, Str_gcp) = NewPlugin(Str_gcp)

=============================================================================
